---- MODULE Spec2Model ----
(***************************************************************************)
(* University course timetabling by Simulated Annealing                    *)
(* (src/main_comentada.c): the objective function calcula_FO with its      *)
(* auxiliary indices, the constructive heuristic solucaoInicial, the       *)
(* neighbourhood generator geraViz, the driver SA and the two-phase        *)
(* hand-off of teacher days (extraiDiasDaMatriz, construcao, main).        *)
(*                                                                         *)
(* Arrays are 0-based functions, as in the C code; -1 is the empty cell    *)
(* and the "no witness" value.                                             *)
(***************************************************************************)
EXTENDS Integers, Sequences, FiniteSets, TLC

VARIABLES
    inst,                      \* the problem data read by leArquivos (disc, sala, curso, restricao, sizes)
    rotina,                    \* 0 while the first timetable is built, 1 for the second
    usar_restricao_integral,   \* flag: calcula_FO overlays r9 with dias_ocupados_integral
    dias_ocupados_integral,    \* [teacher][day] bitmap inherited from the first timetable
    num_profs_da_integral,     \* number of teachers of the first timetable
    idx,                       \* r1, r21, r22, r5, r8, r9, r11, restricoes_violadas, aux_mov_*
    matriz,                    \* the Matriz being built / evaluated: [n |-> grid, fo |-> value]
    integral,                  \* main's first timetable, kept for extraiDiasDaMatriz
    constr,                    \* locals of solucaoInicial: j, atribuicoes, cont
    atual,                     \* SA: the current solution
    melhor,                    \* SA: the best solution found
    viz,                       \* SA: the neighbour under construction / evaluation
    sa,                        \* SA: T, i, fim_forcado, reaquecimento
    heap,                      \* the blocks obtained from malloc and the blocks passed to free
    pc                         \* position of the program

vars == <<inst, rotina, usar_restricao_integral, dias_ocupados_integral,
          num_profs_da_integral, idx, matriz, integral, constr, atual, melhor,
          viz, sa, heap, pc>>

(***************************************************************************)
(* Bounds of the model.                                                    *)
(***************************************************************************)
MaxAulas == 2        \* lecture counts (disc[c].aulas) range over 0..MaxAulas
MaxMinDias == 2      \* disc[c].minDias ranges over 0..MaxMinDias
MaxIter == 2         \* inner iterations of SA followed one by one at each temperature
MaxCont == 4         \* failed draws in a row followed in solucaoInicial

(***************************************************************************)
(* Problem data (the globals filled by leArquivos).                        *)
(***************************************************************************)
dias == inst.dias
periodos_dia == inst.periodos_dia
salas == inst.salas
disciplinas == inst.disciplinas
professores == inst.professores
cursos == inst.cursos
restricoes == inst.restricoes
disc == inst.disc
sala == inst.sala
restricao == inst.restricao
total_periodos == periodos_dia * dias

Periodos == 0..(total_periodos - 1)
Salas == 0..(salas - 1)
Disciplinas == 0..(disciplinas - 1)
Professores == 0..(professores - 1)
Cursos == 0..(cursos - 1)
Dias == 0..(dias - 1)

\* posicao_restricao[0][dis]: first record of restricao naming dis, or -1
posicao_restricao0(dis) ==
    LET S == {c \in 0..(restricoes - 1) : restricao[c].disciplina = dis}
    IN  IF S = {} THEN -1 ELSE CHOOSE c \in S : \A e \in S : c <= e

\* posicao_restricao[1][dis]: last record of restricao naming dis, or -1
posicao_restricao1(dis) ==
    LET S == {c \in 0..(restricoes - 1) : restricao[c].disciplina = dis}
    IN  IF S = {} THEN -1 ELSE CHOOSE c \in S : \A e \in S : c >= e

modulo(n1, n2) == IF n1 > n2 THEN n1 - n2 ELSE n2 - n1

RECURSIVE somaVetor(_, _)
somaVetor(vetor, S) ==
    IF S = {} THEN 0
    ELSE LET x == CHOOSE y \in S : TRUE
         IN  vetor[x] + somaVetor(vetor, S \ {x})

setVetor(S, valor) == [i \in S |-> valor]
setMatriz(L, C, valor) == [i \in L |-> [j \in C |-> valor]]

(***************************************************************************)
(* restricaoR4: 1 when dis is declared unavailable at period per.          *)
(***************************************************************************)
restricaoR4(dis, per) ==
    LET dia == per \div periodos_dia
        diaPer == per % periodos_dia
    IN  IF posicao_restricao0(dis) = -1 THEN 0
        ELSE IF \E i \in posicao_restricao0(dis)..posicao_restricao1(dis) :
                    /\ restricao[i].disciplina = dis
                    /\ restricao[i].dia = dia
                    /\ restricao[i].per = diaPer
             THEN 1 ELSE 0

(***************************************************************************)
(* restricaoR6: the curricula of dis for which the lecture at per has no   *)
(* lecture of the same curriculum in the next or previous period of the    *)
(* day (any room); 2 points each.                                          *)
(***************************************************************************)
Isolados(n, dis, per) ==
    {i \in Cursos :
        /\ disc[dis].cursos[i] = 1
        /\ ~ \E j \in Salas :
              \/ /\ (per % periodos_dia) < (periodos_dia - 1)
                 /\ n[per + 1][j] # -1
                 /\ disc[n[per + 1][j]].cursos[i] = 1
              \/ /\ (per % periodos_dia) > 0
                 /\ n[per - 1][j] # -1
                 /\ disc[n[per - 1][j]].cursos[i] = 1}

\* restricaoR6 charging 1 point per isolated curriculum instead of 2
restricaoR6_umPonto(n, dis, per) == Cardinality(Isolados(n, dis, per))

restricaoR6(n, dis, per) == 2 * Cardinality(Isolados(n, dis, per))

(***************************************************************************)
(* calcula_FO, initialisation: every index zeroed, r9 overlaid with the    *)
(* inherited teacher days when usar_restricao_integral is set.             *)
(***************************************************************************)
\* the zeroing of r9 without the overlay of the inherited days
SementeR9_semHeranca == [i \in Professores |-> [j \in Dias |-> 0]]

SementeR9 ==
    [i \in Professores |-> [j \in Dias |->
        IF usar_restricao_integral = 1 /\ i < num_profs_da_integral
        THEN dias_ocupados_integral[i][j] ELSE 0]]

Zerado ==
    [fo |-> 0,
     r1 |-> setVetor(Disciplinas, 0),
     r21 |-> setMatriz(Periodos, Professores, 0),
     r22 |-> setMatriz(Periodos, Cursos, 0),
     r5 |-> setMatriz(Disciplinas, Dias, 0),
     r8 |-> setVetor(Disciplinas, -1),
     r9 |-> SementeR9,
     r11 |-> setMatriz(Dias, Disciplinas, 0),
     restricoes_violadas |-> setVetor(0..11, -1),
     aux_mov_r21 |-> setVetor(Disciplinas, -1),
     aux_mov_r22 |-> setVetor(Disciplinas, -1),
     aux_mov_r4 |-> setVetor(Disciplinas, -1),
     aux_mov_r5 |-> setVetor(Disciplinas, -1),
     aux_mov_r6 |-> setMatriz(Periodos, Salas, -1),
     aux_mov_r7 |-> setMatriz(Disciplinas, 0..1, -1),
     aux_mov_r8 |-> setVetor(Periodos, -1),
     aux_mov_r9 |-> setVetor(Professores, -1),
     aux_mov_r10 |-> setMatriz(Disciplinas, 0..1, -1),
     aux_mov_r11 |-> setMatriz(Periodos, Salas, -1)]

(***************************************************************************)
(* calcula_FO, main loop body for cell (i, j).  Each Passo* is one block   *)
(* of the body, applied in the order of the code.                          *)
(***************************************************************************)
PassoR1R2(s, n, i, j) ==
    LET c == n[i][j]
        p == disc[c].prof
        pos == (j * total_periodos) + i
        r21n == s.r21[i][p] + 1
        r22n == [k \in Cursos |->
                    s.r22[i][k] + (IF disc[c].cursos[k] = 1 THEN 1 ELSE 0)]
    IN  [s EXCEPT
            !.r1[c] = @ + 1,
            !.r21[i][p] = r21n,
            !.aux_mov_r21[c] = IF r21n > 1 THEN pos ELSE @,
            !.r22 = [x \in Periodos |-> IF x = i THEN r22n ELSE s.r22[x]],
            !.aux_mov_r22[c] = IF \E k \in Cursos : r22n[k] > 1 THEN pos ELSE @]

\* PassoR4 without the penalty
PassoR4_semPenalidade(s, n, i, j) ==
    LET c == n[i][j]
        pos == (j * total_periodos) + i
    IN  IF restricaoR4(c, i) = 1
        THEN [s EXCEPT !.aux_mov_r4[c] = pos,
                       !.restricoes_violadas[4] = @ + 1]
        ELSE s

PassoR4(s, n, i, j) ==
    LET c == n[i][j]
        pos == (j * total_periodos) + i
    IN  IF restricaoR4(c, i) = 1
        THEN [s EXCEPT !.aux_mov_r4[c] = pos,
                       !.restricoes_violadas[4] = @ + 1,
                       !.fo = @ + 1000000]
        ELSE s

PassoR5R6(s, n, i, j) ==
    LET c == n[i][j]
        iso == Cardinality(Isolados(n, c, i))
    IN  [s EXCEPT
            !.r5[c][i \div periodos_dia] = @ + 1,
            !.fo = @ + restricaoR6(n, c, i),
            !.restricoes_violadas[6] = @ + iso,
            !.aux_mov_r6[i][j] = IF iso > 0 THEN c ELSE @]

PassoR7(s, n, i, j) ==
    LET c == n[i][j]
        pos == (j * total_periodos) + i
        sub_r7 == disc[c].alunos - sala[j].capacidade
    IN  IF sub_r7 > 0
        THEN [s EXCEPT
                !.fo = @ + sub_r7,
                !.restricoes_violadas[7] = @ + sub_r7,
                !.aux_mov_r7[c][0] = IF s.aux_mov_r7[c][0] < sub_r7 THEN sub_r7 ELSE @,
                !.aux_mov_r7[c][1] = IF s.aux_mov_r7[c][0] < sub_r7 THEN pos ELSE @]
        ELSE s

\* the R8 step recording the violation without adding it to fo
PassoR8_semPenalidade(s, n, i, j) ==
    LET c == n[i][j]
        pos == (j * total_periodos) + i
        v8 == s.restricoes_violadas[8] + 1
    IN  IF s.r8[c] = -1 THEN [s EXCEPT !.r8[c] = j]
        ELSE IF s.r8[c] # j
        THEN [s EXCEPT
                !.restricoes_violadas[8] = v8,
                !.aux_mov_r8 = [k \in Periodos |->
                                   IF k = v8 THEN pos ELSE s.aux_mov_r8[k]]]
        ELSE s

PassoR8(s, n, i, j) ==
    LET c == n[i][j]
        pos == (j * total_periodos) + i
        v8 == s.restricoes_violadas[8] + 1
    IN  IF s.r8[c] = -1 THEN [s EXCEPT !.r8[c] = j]
        ELSE IF s.r8[c] # j
        THEN [s EXCEPT
                !.fo = @ + 1,
                !.restricoes_violadas[8] = v8,
                !.aux_mov_r8 = [k \in Periodos |->
                                   IF k = v8 THEN pos ELSE s.aux_mov_r8[k]]]
        ELSE s

PassoR9(s, n, i, j) ==
    LET p == disc[n[i][j]].prof
        d == i \div periodos_dia
    IN  IF s.r9[p][d] < 1 THEN [s EXCEPT !.r9[p][d] = 1] ELSE s

PassoR10(s, n, i, j) ==
    LET c == n[i][j]
        pos == (j * total_periodos) + i
    IN  IF disc[c].tipo_sala # sala[j].tipo_sala
        THEN [s EXCEPT
                !.fo = @ + 1000000,
                !.restricoes_violadas[10] = @ + 1,
                !.aux_mov_r10[c][0] = disc[c].tipo_sala,
                !.aux_mov_r10[c][1] = pos]
        ELSE s

PassoR11(s, n, i, j) ==
    LET c == n[i][j]
        d == i \div periodos_dia
        r11n == s.r11[d][c] + 1
    IN  [s EXCEPT !.r11[d][c] = r11n,
                  !.aux_mov_r11[i][j] = IF r11n > 1 THEN c ELSE @]

Celula(s, n, i, j) ==
    IF n[i][j] = -1 THEN s
    ELSE PassoR11(PassoR10(PassoR9(PassoR8(PassoR7(PassoR5R6(PassoR4(
            PassoR1R2(s, n, i, j), n, i, j), n, i, j), n, i, j), n, i, j),
            n, i, j), n, i, j), n, i, j)

\* the double loop over periods (outer) and rooms (inner); k counts the cells visited
RECURSIVE Percorre(_, _, _)
Percorre(s, n, k) ==
    IF k >= total_periodos * salas THEN s
    ELSE Percorre(Celula(s, n, k \div salas, k % salas), n, k + 1)

(***************************************************************************)
(* calcula_FO, post-processing.                                            *)
(***************************************************************************)
\* R2: every (period, teacher) and (period, curriculum) with more than one lecture
PosR2(s) ==
    LET CT == {x \in Periodos \X Professores : s.r21[x[1]][x[2]] > 1}
        CC == {x \in Periodos \X Cursos : s.r22[x[1]][x[2]] > 1}
        pen == somaVetor([x \in CT |-> 1000000 * (s.r21[x[1]][x[2]] - 1)], CT)
               + somaVetor([x \in CC |-> 1000000 * (s.r22[x[1]][x[2]] - 1)], CC)
    IN  [s EXCEPT
            !.fo = @ + pen,
            !.restricoes_violadas[2] =
                IF CT = {} /\ CC = {} THEN @
                ELSE Cardinality(CT) + (1000 * Cardinality(CC))]

\* R1: lectures placed against lectures required
\* the R1 penalty charged once per course instead of once per lecture
PenalidadeR1_porDisciplina(s, i) ==
    IF s.r1[i] # disc[i].aulas THEN 1000000 ELSE 0

PenalidadeR1(s, i) ==
    IF s.r1[i] # disc[i].aulas
    THEN 1000000 * modulo(s.r1[i], disc[i].aulas) ELSE 0

\* R5: days used by course i (r5_aux) and the penalty for the missing days
R5Aux(s, i) == Cardinality({j \in Dias : s.r5[i][j] > 0})

\* PenalidadeR5 charging only the courses that have lectures
PenalidadeR5_soComAulas(s, i) ==
    IF disc[i].aulas > 0 /\ R5Aux(s, i) < disc[i].minDias
    THEN 5 * (disc[i].minDias - R5Aux(s, i)) ELSE 0

PenalidadeR5(s, i) ==
    IF R5Aux(s, i) < disc[i].minDias
    THEN 5 * (disc[i].minDias - R5Aux(s, i)) ELSE 0

PosR1R5(s) ==
    LET V == {i \in Disciplinas : R5Aux(s, i) < disc[i].minDias}
    IN  [s EXCEPT
            !.fo = @ + somaVetor([i \in Disciplinas |->
                                    PenalidadeR1(s, i) + PenalidadeR5(s, i)],
                                 Disciplinas),
            !.restricoes_violadas[5] = @ + somaVetor([i \in V |-> R5Aux(s, i)], V),
            !.aux_mov_r5 = [i \in Disciplinas |->
                               IF i \in V THEN R5Aux(s, i) ELSE s.aux_mov_r5[i]]]

\* R9: days on which teacher i teaches (dias_com_aula) and the penalty beyond 2 days
DiasComAula(s, i) == Cardinality({j \in Dias : s.r9[i][j] > 0})

PenalidadeR9(s, i) ==
    IF DiasComAula(s, i) > 2 THEN 5 * (DiasComAula(s, i) - 2) ELSE 0

PosR9(s) ==
    LET V == {i \in Professores : DiasComAula(s, i) > 2}
    IN  [s EXCEPT
            !.fo = @ + somaVetor([i \in Professores |-> PenalidadeR9(s, i)],
                                 Professores),
            !.restricoes_violadas[9] =
                @ + somaVetor([i \in V |-> DiasComAula(s, i) - 2], V),
            !.aux_mov_r9 = [i \in Professores |->
                               IF i \in V THEN DiasComAula(s, i)
                               ELSE s.aux_mov_r9[i]]]

\* R11: the same course more than once on a day
PenalidadeR11(s, i, j) ==
    IF s.r11[i][j] > 1 THEN 1000000 * (s.r11[i][j] - 1) ELSE 0

PosR11(s) ==
    LET V == {x \in Dias \X Disciplinas : s.r11[x[1]][x[2]] > 1}
    IN  [s EXCEPT
            !.fo = @ + somaVetor([x \in V |-> PenalidadeR11(s, x[1], x[2])], V),
            !.restricoes_violadas[11] =
                @ + somaVetor([x \in V |-> s.r11[x[1]][x[2]] - 1], V)]

(***************************************************************************)
(* calcula_FO: the globals after a full evaluation of grid n; .fo is the   *)
(* returned objective.                                                     *)
(***************************************************************************)
calcula_FO(n) == PosR11(PosR9(PosR1R5(PosR2(Percorre(Zerado, n, 0)))))

criaMatriz == [n |-> setMatriz(Periodos, Salas, -1), fo |-> 0]

(***************************************************************************)
(* extraiDiasDaMatriz: teacher-day bitmap of the first timetable.          *)
(***************************************************************************)
\* extraiDiasDaMatriz taking the period of the day for the day
extraiDiasDaMatriz_periodoDoDia(n, num_profs, num_dias, periodos_total, periodos_por_dia) ==
    [p \in 0..(num_profs - 1) |-> [d \in 0..(num_dias - 1) |->
        IF \E i \in 0..(periodos_total - 1), j \in Salas :
              /\ n[i][j] # -1
              /\ disc[n[i][j]].prof = p
              /\ i % periodos_por_dia = d
        THEN 1 ELSE 0]]

extraiDiasDaMatriz(n, num_profs, num_dias, periodos_total, periodos_por_dia) ==
    [p \in 0..(num_profs - 1) |-> [d \in 0..(num_dias - 1) |->
        IF \E i \in 0..(periodos_total - 1), j \in Salas :
              /\ n[i][j] # -1
              /\ disc[n[i][j]].prof = p
              /\ i \div periodos_por_dia = d
        THEN 1 ELSE 0]]

(***************************************************************************)
(* The heap: a block is <<phase, name, row>> (row -1 for the array itself). *)
(* alocados are the blocks malloc returned, liberados those passed to free *)
(* once, duplos those passed to free again.                                *)
(***************************************************************************)
SemBlocos == [alocados |-> {}, liberados |-> {}, duplos |-> {}]

(***************************************************************************)
(* Instances.  Disc and Sala build one line of COURSES / ROOMS.            *)
(***************************************************************************)
Disc(p, a, m, al, t, cs) ==
    [prof |-> p, aulas |-> a, minDias |-> m, alunos |-> al, tipo_sala |-> t,
     cursos |-> cs]
Sala(c, t) == [capacidade |-> c, tipo_sala |-> t]
Restr(d, dia, per) == [disciplina |-> d, dia |-> dia, per |-> per]
Vetor(seq) == [i \in 0..(Len(seq) - 1) |-> seq[i + 1]]

\* 3 days x 1 period x 2 rooms; course 0 swept over lecture counts and minimum days
InstA(a, m) ==
    [dias |-> 3, periodos_dia |-> 1, salas |-> 2, disciplinas |-> 2,
     professores |-> 2, cursos |-> 1, restricoes |-> 1,
     disc |-> Vetor(<<Disc(0, a, m, 2, 1, Vetor(<<1>>)),
                      Disc(1, 1, 1, 1, 2, Vetor(<<1>>))>>),
     sala |-> Vetor(<<Sala(1, 1), Sala(2, 2)>>),
     restricao |-> Vetor(<<Restr(0, 0, 0)>>)]

\* 1 day x 3 periods x 2 rooms; two curricula
InstB(a, m) ==
    [dias |-> 1, periodos_dia |-> 3, salas |-> 2, disciplinas |-> 2,
     professores |-> 1, cursos |-> 2, restricoes |-> 0,
     disc |-> Vetor(<<Disc(0, a, m, 2, 1, Vetor(<<1, 1>>)),
                      Disc(0, 1, 1, 3, 1, Vetor(<<1, 0>>))>>),
     sala |-> Vetor(<<Sala(2, 1), Sala(3, 1)>>),
     restricao |-> Vetor(<< >>)]

\* 2 days x 2 periods x 2 rooms; a feasible instance
InstC ==
    [dias |-> 2, periodos_dia |-> 2, salas |-> 2, disciplinas |-> 2,
     professores |-> 1, cursos |-> 1, restricoes |-> 2,
     disc |-> Vetor(<<Disc(0, 2, 2, 2, 1, Vetor(<<1>>)),
                      Disc(0, 2, 1, 3, 1, Vetor(<<1>>))>>),
     sala |-> Vetor(<<Sala(3, 1), Sala(2, 1)>>),
     restricao |-> Vetor(<<Restr(1, 1, 1), Restr(0, 0, 0)>>)]

\* first timetable of the two-phase run: 3 days x 1 period x 1 room, two teachers
InstI ==
    [dias |-> 3, periodos_dia |-> 1, salas |-> 1, disciplinas |-> 2,
     professores |-> 2, cursos |-> 0, restricoes |-> 0,
     disc |-> Vetor(<<Disc(0, 2, 1, 1, 1, Vetor(<< >>)),
                      Disc(1, 1, 1, 1, 1, Vetor(<< >>))>>),
     sala |-> Vetor(<<Sala(5, 1)>>),
     restricao |-> Vetor(<< >>)]

\* second timetable: three teachers (one more than the first timetable)
InstN ==
    [dias |-> 3, periodos_dia |-> 1, salas |-> 1, disciplinas |-> 3,
     professores |-> 3, cursos |-> 0, restricoes |-> 0,
     disc |-> Vetor(<<Disc(0, 1, 1, 1, 1, Vetor(<< >>)),
                      Disc(1, 1, 1, 1, 1, Vetor(<< >>)),
                      Disc(2, 1, 1, 1, 1, Vetor(<< >>))>>),
     sala |-> Vetor(<<Sala(5, 1)>>),
     restricao |-> Vetor(<< >>)]

\* second timetable: one teacher, one lecture (fewer teachers than the first)
InstN1 ==
    [dias |-> 3, periodos_dia |-> 1, salas |-> 1, disciplinas |-> 1,
     professores |-> 1, cursos |-> 0, restricoes |-> 0,
     disc |-> Vetor(<<Disc(0, 1, 1, 1, 1, Vetor(<< >>))>>),
     sala |-> Vetor(<<Sala(5, 1)>>),
     restricao |-> Vetor(<< >>)]

\* second timetable with 2 days (one fewer than the first): one teacher, one lecture
InstN2 ==
    [dias |-> 2, periodos_dia |-> 1, salas |-> 1, disciplinas |-> 1,
     professores |-> 1, cursos |-> 0, restricoes |-> 0,
     disc |-> Vetor(<<Disc(0, 1, 1, 1, 1, Vetor(<< >>))>>),
     sala |-> Vetor(<<Sala(5, 1)>>),
     restricao |-> Vetor(<< >>)]

\* 1 day x 1 period x 3 rooms; course 0 in the only curriculum, course 1 in none
InstD ==
    [dias |-> 1, periodos_dia |-> 1, salas |-> 3, disciplinas |-> 2,
     professores |-> 2, cursos |-> 1, restricoes |-> 0,
     disc |-> Vetor(<<Disc(0, 2, 1, 1, 1, Vetor(<<1>>)),
                      Disc(1, 1, 1, 1, 1, Vetor(<<0>>))>>),
     sala |-> Vetor(<<Sala(1, 1), Sala(1, 1), Sala(1, 1)>>),
     restricao |-> Vetor(<< >>)]

Varridas ==
    {InstA(a, m) : a \in 0..MaxAulas, m \in 0..MaxMinDias}
    \cup {InstB(a, m) : a \in 0..MaxAulas, m \in 0..MaxMinDias}

InstanciasFO == Varridas \cup {InstC, InstI, InstD}
Noturnas == {InstN, InstN1, InstN2}

GradesDe(I) ==
    [0..((I.periodos_dia * I.dias) - 1) -> [0..(I.salas - 1) -> -1..(I.disciplinas - 1)]]

(***************************************************************************)
(* SpecFO: the evaluator applied to every grid of the instances, in the    *)
(* first timetable and, after main's hand-off, in the second.              *)
(***************************************************************************)
InitFO ==
    /\ inst \in InstanciasFO
    /\ rotina = 0
    /\ usar_restricao_integral = 0
    /\ dias_ocupados_integral = << >>
    /\ num_profs_da_integral = 0
    /\ idx = Zerado
    /\ \E g \in GradesDe(inst) : matriz = [n |-> g, fo |-> 0]
    /\ integral = [n |-> << >>, fo |-> 0]
    /\ constr = [j |-> 0, atribuicoes |-> 0, cont |-> 0]
    /\ atual = [n |-> << >>, fo |-> 0]
    /\ melhor = [n |-> << >>, fo |-> 0]
    /\ viz = [n |-> << >>, fo |-> 0]
    /\ sa = [T |-> [m |-> 100000, e |-> 4], i |-> 0, fim_forcado |-> 0, reaquecimento |-> 1]
    /\ pc = "grade"
    /\ heap = SemBlocos

\* matriz.fo = calcula_FO(matriz)
Avalia ==
    /\ pc = "grade"
    /\ idx' = calcula_FO(matriz.n)
    /\ matriz' = [matriz EXCEPT !.fo = idx'.fo]
    /\ pc' = "avaliado"
    /\ UNCHANGED <<heap, inst, rotina, usar_restricao_integral, dias_ocupados_integral,
                   num_profs_da_integral, integral, constr, atual, melhor, viz, sa>>

\* main between the two calls of construcao, and construcao up to the evaluation
\* of a grid of the second instance
Fase2 ==
    /\ pc = "avaliado"
    /\ rotina = 0
    /\ inst = InstI
    /\ integral' = matriz
    /\ dias_ocupados_integral' =
          extraiDiasDaMatriz(matriz.n, professores, dias, total_periodos, periodos_dia)
    /\ num_profs_da_integral' = professores
    /\ rotina' = 1
    /\ usar_restricao_integral' = 1
    /\ inst' \in Noturnas
    /\ \E g \in GradesDe(inst') : matriz' = [n |-> g, fo |-> 0]
    /\ pc' = "grade"
    /\ UNCHANGED <<heap, idx, constr, atual, melhor, viz, sa>>

NextFO == Avalia \/ Fase2

SpecFO == InitFO /\ [][NextFO]_vars


(***************************************************************************)
(* The temperature.  T, Tinicial, Tfinal and alpha are C floats; a         *)
(* temperature is kept as six significant decimal digits m and a decimal   *)
(* exponent e, value (m / 100000) * 10^e, and a product is rounded to six  *)
(* digits.  Every threshold of the program is a power of ten.              *)
(***************************************************************************)
Pot10(p) == [m |-> 100000, e |-> p]
Tinicial == Pot10(6)
Tfinal == Pot10(-5)
Temp_reaquecimento == Pot10(-4)

Maior(a, b) == a.e > b.e \/ (a.e = b.e /\ a.m > b.m)
Menor(a, b) == Maior(b, a)

\* T * alpha, alpha given in thousandths
Vezes(t, a) ==
    LET p == t.m * a
    IN  IF (p + 500) \div 1000 >= 100000
        THEN [m |-> (p + 500) \div 1000, e |-> t.e]
        ELSE [m |-> (p + 50) \div 100, e |-> t.e - 1]

\* the schedule chosen at the head of the outer loop
maxIteracoes(t) ==
    IF Maior(t, Pot10(3)) THEN 600
    ELSE IF Maior(t, Pot10(2)) THEN 800
    ELSE IF Maior(t, Pot10(1)) THEN 1000
    ELSE IF Maior(t, Pot10(0)) THEN 1200
    ELSE IF Maior(t, Pot10(-1)) THEN 1500
    ELSE 1200

\* alpha with 0.999 in place of 0.995 in the last regime
alpha_lento(t) ==
    IF Maior(t, Pot10(3)) THEN 980
    ELSE IF Maior(t, Pot10(2)) THEN 970
    ELSE IF Maior(t, Pot10(1)) THEN 980
    ELSE IF Maior(t, Pot10(0)) THEN 990
    ELSE IF Maior(t, Pot10(-1)) THEN 993
    ELSE 999

alpha(t) ==
    IF Maior(t, Pot10(3)) THEN 980
    ELSE IF Maior(t, Pot10(2)) THEN 970
    ELSE IF Maior(t, Pot10(1)) THEN 980
    ELSE IF Maior(t, Pot10(0)) THEN 990
    ELSE IF Maior(t, Pot10(-1)) THEN 993
    ELSE 995

\* the number of attempts geraViz derives from T
tentativas(t) ==
    IF Menor(t, Pot10(0)) THEN 6
    ELSE IF Menor(t, Pot10(1)) THEN 5
    ELSE IF Menor(t, Pot10(2)) THEN 4
    ELSE IF Menor(t, Pot10(3)) THEN 3
    ELSE 2

\* ProximaT that reheats whatever reaquecimento holds
ProximaT_semContador(t, reaq) ==
    IF Menor(t, Temp_reaquecimento) THEN Pot10(5) ELSE Vezes(t, alpha(t))

\* the end of one outer iteration: reheat once, otherwise cool
ProximaT(t, reaq) ==
    IF Menor(t, Temp_reaquecimento) /\ reaq > 0 THEN Pot10(5) ELSE Vezes(t, alpha(t))
ProximoReaquecimento(t, reaq) ==
    IF Menor(t, Temp_reaquecimento) /\ reaq > 0 THEN reaq - 1 ELSE reaq

(***************************************************************************)
(* Instances of the search: 2 days of 1 period, 2 rooms.  Course 0 has a   *)
(* lectures, 2 students, room type 1 and is unavailable on day 1; course 1 *)
(* has no lecture and m minimum days.  Room 1 is too small for course 0    *)
(* and of another type.                                                    *)
(***************************************************************************)
InstS(a, m) ==
    [dias |-> 2, periodos_dia |-> 1, salas |-> 2, disciplinas |-> 2,
     professores |-> 2, cursos |-> 1, restricoes |-> 1,
     disc |-> Vetor(<<Disc(0, a, 1, 2, 1, Vetor(<<1>>)),
                      Disc(1, 0, m, 1, 1, Vetor(<<1>>))>>),
     sala |-> Vetor(<<Sala(2, 1), Sala(1, 2)>>),
     restricao |-> Vetor(<<Restr(0, 1, 0)>>)]

\* 1 day x 1 period x 1 room, one course of one student: with a lectures and,
\* for r = 1, unavailable in the only period
Inst1x1(a, r) ==
    [dias |-> 1, periodos_dia |-> 1, salas |-> 1, disciplinas |-> 1,
     professores |-> 1, cursos |-> 0, restricoes |-> r,
     disc |-> Vetor(<<Disc(0, a, 1, 1, 1, Vetor(<< >>))>>),
     sala |-> Vetor(<<Sala(1, 1)>>),
     restricao |-> IF r = 1 THEN Vetor(<<Restr(0, 0, 0)>>) ELSE Vetor(<< >>)]

\* 1 day x 2 periods, room 0 of type 1 and room 1 of type 2, one lecture that
\* needs type 2
InstTipo ==
    [dias |-> 1, periodos_dia |-> 2, salas |-> 2, disciplinas |-> 1,
     professores |-> 1, cursos |-> 0, restricoes |-> 0,
     disc |-> Vetor(<<Disc(0, 1, 1, 1, 2, Vetor(<< >>))>>),
     sala |-> Vetor(<<Sala(1, 1), Sala(1, 2)>>),
     restricao |-> Vetor(<< >>)]

\* 2 days x 1 period x 2 rooms, one course of a lectures and m minimum days
InstDias(a, m) ==
    [dias |-> 2, periodos_dia |-> 1, salas |-> 2, disciplinas |-> 1,
     professores |-> 1, cursos |-> 0, restricoes |-> 0,
     disc |-> Vetor(<<Disc(0, a, m, 1, 1, Vetor(<< >>))>>),
     sala |-> Vetor(<<Sala(1, 1), Sala(1, 1)>>),
     restricao |-> Vetor(<< >>)]

\* 1 day x 1 period x 2 rooms, one lecture of 2^29 + 1 students that fits room 0
\* and exceeds room 1 by 2^29; 2 minimum days
InstAlunos ==
    [dias |-> 1, periodos_dia |-> 1, salas |-> 2, disciplinas |-> 1,
     professores |-> 1, cursos |-> 0, restricoes |-> 0,
     disc |-> Vetor(<<Disc(0, 1, 2, 536870913, 1, Vetor(<< >>))>>),
     sala |-> Vetor(<<Sala(536870913, 1), Sala(1, 1)>>),
     restricao |-> Vetor(<< >>)]

\* 2 days x 1 period x 2 rooms, two courses of one teacher with 2 lectures each:
\* the lectures fill the grid
InstCheia ==
    [dias |-> 2, periodos_dia |-> 1, salas |-> 2, disciplinas |-> 2,
     professores |-> 1, cursos |-> 0, restricoes |-> 0,
     disc |-> Vetor(<<Disc(0, 2, 1, 1, 1, Vetor(<< >>)),
                      Disc(0, 2, 1, 1, 1, Vetor(<< >>))>>),
     sala |-> Vetor(<<Sala(1, 1), Sala(1, 1)>>),
     restricao |-> Vetor(<< >>)]

InstanciasSA ==
    {InstS(0, MaxMinDias), InstS(1, 0), InstS(2, MaxMinDias),
     Inst1x1(2, 0), Inst1x1(1, 1), InstTipo, InstDias(2, 1), InstDias(2, 2),
     InstDias(1, 2), InstAlunos, InstCheia}

(***************************************************************************)
(* solucaoInicial: one draw (i, k) of the while loop per step.  Once the   *)
(* grid is full no cell is written any more and only cont > 2 is read:     *)
(* cont is then kept at MaxCont.                                           *)
(***************************************************************************)
Init ==
    /\ inst \in InstanciasSA
    /\ rotina = 0
    /\ usar_restricao_integral = 0
    /\ dias_ocupados_integral = << >>
    /\ num_profs_da_integral = 0
    /\ idx = Zerado
    /\ matriz = criaMatriz
    /\ integral = [n |-> << >>, fo |-> 0]
    /\ constr = [j |-> 0, atribuicoes |-> disc[0].aulas, cont |-> 0]
    /\ atual = [n |-> << >>, fo |-> 0]
    /\ melhor = [n |-> << >>, fo |-> 0]
    /\ viz = [n |-> << >>, fo |-> 0]
    /\ sa = [T |-> Pot10(4), i |-> 0, fim_forcado |-> 0, reaquecimento |-> 1]
    /\ pc = "solucaoInicial"
    /\ heap = SemBlocos

\* Tentativa1 without the test of the empty cell
Tentativa1_semVazia(n, j, i, k) ==
    /\ sala[k].capacidade >= disc[j].alunos
    /\ restricaoR4(j, i) = 0
    /\ sala[k].tipo_sala >= disc[j].tipo_sala

\* the first attempt: empty cell, capacity, availability and room type
Tentativa1(n, j, i, k) ==
    /\ n[i][k] = -1
    /\ sala[k].capacidade >= disc[j].alunos
    /\ restricaoR4(j, i) = 0
    /\ sala[k].tipo_sala >= disc[j].tipo_sala

\* one pass of the while loop for course j with the draw (i, k): the grid,
\* atribuicoes and cont it leaves
Passagem(n, j, atribuicoes, cont, i, k) ==
    LET ok1 == Tentativa1(n, j, i, k)
        n1 == IF ok1 THEN [n EXCEPT ![i][k] = j] ELSE n
        a1 == IF ok1 THEN atribuicoes - 1 ELSE atribuicoes
        c1 == IF ok1 THEN cont - 3 ELSE cont + 1
        ok2 == c1 > 2 /\ n1[i][k] = -1
    IN  [n |-> IF ok2 THEN [n1 EXCEPT ![i][k] = j] ELSE n1,
         atribuicoes |-> IF ok2 THEN a1 - 1 ELSE a1,
         cont |-> IF ok2 THEN c1 - 3 ELSE c1]

\* one pass of the while loop with the draw (i, k); cont grows without limit in
\* the code: it is held at MaxCont once no cell is empty (no pass can place any
\* more), and passes beyond MaxCont are left out while a cell is still empty
SorteioEm(i, k) ==
    /\ pc = "solucaoInicial"
    /\ constr.j < disciplinas
    /\ constr.atribuicoes > 0
    /\ i \in Periodos
    /\ k \in Salas
    /\ LET r == Passagem(matriz.n, constr.j, constr.atribuicoes, constr.cont, i, k)
           cheia == \A x \in Periodos, y \in Salas : r.n[x][y] # -1
       IN  /\ IF cheia THEN TRUE ELSE r.cont <= MaxCont
           /\ matriz' = [matriz EXCEPT !.n = r.n]
           /\ constr' = [constr EXCEPT !.atribuicoes = r.atribuicoes,
                                       !.cont = IF r.cont > MaxCont THEN MaxCont
                                                ELSE r.cont]
    /\ UNCHANGED <<heap, inst, rotina, usar_restricao_integral, dias_ocupados_integral,
                   num_profs_da_integral, idx, integral, atual, melhor, viz, sa, pc>>

\* one pass of the while loop
Sorteio == \E i \in Periodos, k \in Salas : SorteioEm(i, k)

\* the for loop moves to the next course
ProximaDisciplina ==
    /\ pc = "solucaoInicial"
    /\ constr.j < disciplinas
    /\ constr.atribuicoes <= 0
    /\ constr' = [j |-> constr.j + 1,
                  atribuicoes |-> IF constr.j + 1 < disciplinas
                                  THEN disc[constr.j + 1].aulas ELSE 0,
                  cont |-> 0]
    /\ UNCHANGED <<heap, inst, rotina, usar_restricao_integral, dias_ocupados_integral,
                   num_profs_da_integral, idx, matriz, integral, atual, melhor, viz,
                   sa, pc>>

(***************************************************************************)
(* geraViz.  Every operator returns the set of its possible results, one   *)
(* per outcome of its random draws: the grid n, the indices s as the       *)
(* operator leaves them, and ub = TRUE when the execution wrote outside an *)
(* array.  A draw that fails a retry loop has no effect, so a loop         *)
(* contributes the results of its successful draws; a branch guarded by    *)
(* aux3 >= tentativas is taken only after failed draws, which need a cell  *)
(* that fails the earlier branches.  An empty set is a loop that never     *)
(* ends.                                                                   *)
(***************************************************************************)
Celulas == Periodos \X Salas

Troca(n, a, b) ==
    [x \in Periodos |-> [y \in Salas |->
        IF x = a[1] /\ y = a[2] THEN n[b[1]][b[2]]
        ELSE IF x = b[1] /\ y = b[2] THEN n[a[1]][a[2]]
        ELSE n[x][y]]]

\* sal = pos / total_periodos; per = pos - sal * total_periodos
Decodifica(pos) == <<pos - ((pos \div total_periodos) * total_periodos),
                     pos \div total_periodos>>

\* restricoes_violadas[k] -= q
menosViolacoes(s, k, q) ==
    [s EXCEPT !.restricoes_violadas =
        [r \in 0..11 |-> IF r = k THEN s.restricoes_violadas[r] - q
                                  ELSE s.restricoes_violadas[r]]]

\* v[a] = -1, and m[a][0] = m[a][1] = -1, and m[w] = -1 for a cell w
semEntrada(v, a) == [c \in DOMAIN v |-> IF c = a THEN -1 ELSE v[c]]
semPar(m, a) == [c \in DOMAIN m |-> IF c = a THEN [k \in 0..1 |-> -1] ELSE m[c]]
semCelula(m, w) ==
    [p \in DOMAIN m |-> [q \in DOMAIN m[p] |->
        IF p = w[1] /\ q = w[2] THEN -1 ELSE m[p][q]]]

Res(n, s) == [n |-> n, s |-> s, ub |-> FALSE]
Indefinido(n, s) == [n |-> n, s |-> s, ub |-> TRUE]

\* while(aux > 0): swaps of two drawn cells, at least one of them not empty
RECURSIVE Trocas(_, _, _)
Trocas(R, Pares, k) ==
    IF k = 0 THEN R
    ELSE LET R1 == R \cup UNION {
                 {Troca(g, p[1], p[2]) :
                     p \in {q \in Pares : g[q[1][1]][q[1][2]] # -1
                                          \/ g[q[2][1]][q[2][2]] # -1}} : g \in R}
         IN  IF R1 = R THEN R ELSE Trocas(R1, Pares, k - 1)

\* aux = randomInt(1, maximo) swaps; a swap of a lecture with itself changes nothing
TrocasAleatorias(n, Pares, maximo) ==
    IF \A x \in Celulas : n[x[1]][x[2]] = -1 THEN {}
    ELSE Trocas({n}, Pares, maximo)

ParesLivres == Celulas \X Celulas
ParesMesmoPeriodo == {p \in Celulas \X Celulas : p[1][1] = p[2][1]}
ParesMesmaSala == {p \in Celulas \X Celulas : p[1][2] = p[2][2]}

\* Despacho whose branch for R8 does not test restricoes_violadas[8] != -1
Despacho_semGuardaR8(movimento, s) ==
    LET rv == s.restricoes_violadas
    IN  IF rv[2] # -1 /\ movimento < 100 + ((rv[2] % 1000) * 128) THEN 1
        ELSE IF rv[2] # -1 /\ movimento < 100 + (rv[2] \div 8) THEN 2
        ELSE IF rv[6] # -1 /\ movimento >= 100 /\ movimento < 200 + (2 * rv[6]) THEN 3
        ELSE IF rv[7] # -1 /\ movimento >= 200 /\ movimento < 300 + rv[7] THEN 4
        ELSE IF movimento >= 300 /\ movimento < 400 + rv[8] THEN 5
        ELSE IF rv[9] # -1 /\ movimento >= 400 /\ movimento < 500 + (rv[9] * 20) THEN 6
        ELSE IF rv[10] # -1 /\ movimento >= 500 /\ movimento < 600 + rv[10] THEN 7
        ELSE IF rv[11] # -1 /\ movimento >= 600 /\ movimento < 700 + (rv[11] * 100) THEN 8
        ELSE IF movimento >= 700 /\ movimento < 800 THEN 9
        ELSE IF movimento >= 800 /\ movimento < 900 THEN 10
        ELSE 11

\* the branch of geraViz taken for the draw movimento
Despacho(movimento, s) ==
    LET rv == s.restricoes_violadas
    IN  IF rv[2] # -1 /\ movimento < 100 + ((rv[2] % 1000) * 128) THEN 1
        ELSE IF rv[2] # -1 /\ movimento < 100 + (rv[2] \div 8) THEN 2
        ELSE IF rv[6] # -1 /\ movimento >= 100 /\ movimento < 200 + (2 * rv[6]) THEN 3
        ELSE IF rv[7] # -1 /\ movimento >= 200 /\ movimento < 300 + rv[7] THEN 4
        ELSE IF rv[8] # -1 /\ movimento >= 300 /\ movimento < 400 + rv[8] THEN 5
        ELSE IF rv[9] # -1 /\ movimento >= 400 /\ movimento < 500 + (rv[9] * 20) THEN 6
        ELSE IF rv[10] # -1 /\ movimento >= 500 /\ movimento < 600 + rv[10] THEN 7
        ELSE IF rv[11] # -1 /\ movimento >= 600 /\ movimento < 700 + (rv[11] * 100) THEN 8
        ELSE IF movimento >= 700 /\ movimento < 800 THEN 9
        ELSE IF movimento >= 800 /\ movimento < 900 THEN 10
        ELSE 11

\* MOVIMENTO 1: teacher conflicts
movProfessor(n, s, t) ==
    IF s.restricoes_violadas[2] % 1000 > 1
    THEN LET W == {c \in Disciplinas : s.aux_mov_r21[c] # -1}
         IN  IF W = {} THEN {Indefinido(n, s)}
             ELSE UNION {
                 {Res(Troca(n, Decodifica(s.aux_mov_r21[aux]), x),
                      [menosViolacoes(s, 2, 1) EXCEPT
                          !.aux_mov_r21 = semEntrada(s.aux_mov_r21, aux)]) :
                    x \in {y \in Celulas :
                             \/ n[y[1]][y[2]] = -1
                             \/ s.r21[y[1]][disc[n[y[1]][y[2]]].prof] = 0}} :
                 aux \in W}
    ELSE {Res(g, s) : g \in TrocasAleatorias(n, ParesLivres, tentativas(t))}

\* MOVIMENTO 2: curriculum conflicts
movCurso(n, s, t) ==
    IF s.restricoes_violadas[2] > 1000
    THEN LET W == {c \in Disciplinas : s.aux_mov_r22[c] # -1}
         IN  IF W = {} THEN {Indefinido(n, s)}
             ELSE UNION {
                 {Res(Troca(n, Decodifica(s.aux_mov_r22[aux]), x),
                      [menosViolacoes(s, 2, 1000) EXCEPT
                          !.aux_mov_r22 = semEntrada(s.aux_mov_r22, aux)]) :
                    x \in {y \in Celulas :
                             \/ n[y[1]][y[2]] = -1
                             \/ y[1] # Decodifica(s.aux_mov_r22[aux])[1]}} :
                 aux \in W}
    ELSE {Res(g, s) : g \in TrocasAleatorias(n, ParesLivres, tentativas(t))}

\* MOVIMENTO 3: compactness (R6)
movCompacidade(n, s, t) ==
    LET W == {x \in Celulas : s.aux_mov_r6[x[1]][x[2]] # -1}
    IN  UNION {
          {Res(Troca(n, w, x),
               [menosViolacoes(s, 6, 2) EXCEPT
                  !.aux_mov_r6 = [p \in Periodos |-> [q \in Salas |->
                      IF p = w[1] /\ q = w[2] THEN -1
                      ELSE IF p = x[1] /\ q = x[2] /\ x[1] # w[1]
                              /\ n[x[1]][x[2]] # -1 THEN -1
                      ELSE s.aux_mov_r6[p][q]]]]) : x \in Celulas} :
          w \in W}

\* MOVIMENTO 4: room capacity (R7)
movCapacidade(n, s, t) ==
    LET W == {c \in Disciplinas : s.aux_mov_r7[c][0] # -1}
    IN  IF W = {} THEN {Indefinido(n, s)}
        ELSE UNION {
              {Res(Troca(n, Decodifica(s.aux_mov_r7[aux][1]), x),
                   [menosViolacoes(s, 7, 1) EXCEPT
                       !.aux_mov_r7 = semPar(s.aux_mov_r7, aux)]) : x \in Celulas} :
              aux \in W}

\* j = r8[matriz.n[per][sal]]: the values the read can give.  For an empty cell
\* the read is r8[-1], outside the array: any room index, or one out of range
\* (written salas).
LeR8(s, c) == IF c \in Disciplinas THEN {s.r8[c]} ELSE Salas \cup {salas}

\* MOVIMENTO 5: room stability (R8)
movEstabilidade(n, s, t) ==
    LET rv8 == s.restricoes_violadas[8]
        Aux == IF rv8 >= total_periodos THEN Periodos ELSE 0..rv8
        Fim(aux) == IF aux \in Disciplinas
                    THEN [menosViolacoes(s, 8, 1) EXCEPT !.r8 = semEntrada(s.r8, aux)]
                    ELSE menosViolacoes(s, 8, 1)
        Final(g, aux) == [n |-> g, s |-> Fim(aux), ub |-> aux \notin Disciplinas]
    IN  UNION {
          IF s.aux_mov_r8[aux] < 0 THEN {Indefinido(n, s)}
          ELSE LET w == Decodifica(s.aux_mov_r8[aux])
               IN  UNION {
                     IF j \in Salas
                     THEN \* an empty cell of room j at once, any cell of room j
                          \* after tentativas failed draws
                          {Final(Troca(n, w, <<i, j>>), aux) : i \in Periodos}
                     ELSE \* n[i][j] is read outside the row: any value; it is
                          \* copied into the cell, or the cell is emptied
                          {Indefinido([p \in Periodos |-> [q \in Salas |->
                                         IF p = w[1] /\ q = w[2] THEN v
                                         ELSE n[p][q]]], Fim(aux)) :
                              v \in -1..disciplinas} :
                     j \in LeR8(s, n[w[1]][w[2]])} :
          aux \in Aux}

\* the first lecture of teacher p on day d, in scan order, or << >>
PrimeiraAulaNoDia(n, p, d) ==
    LET F == {x \in Celulas : /\ x[1] \div periodos_dia = d
                              /\ n[x[1]][x[2]] # -1
                              /\ disc[n[x[1]][x[2]]].prof = p}
    IN  IF F = {} THEN << >>
        ELSE CHOOSE x \in F : \A y \in F : x[1] < y[1] \/ (x[1] = y[1] /\ x[2] <= y[2])

\* MOVIMENTO 6: teacher load (R9)
movCargaProfessor(n, s, t) ==
    LET PV == {p \in Professores : s.aux_mov_r9[p] > 2}
    IN  (IF PV # Professores THEN {Res(n, s)} ELSE {})
        \cup UNION {
          LET DT == {d \in Dias : s.r9[pv][d] = 1}
          IN  UNION {
                UNION {
                  LET fonte == PrimeiraAulaNoDia(n, pv, dia_fonte)
                  IN  IF fonte = << >> THEN {Res(n, s)}
                      ELSE {Res(Troca(n, fonte, x), s) :
                              x \in {y \in Celulas :
                                        y[1] \div periodos_dia = dia_destino}} :
                  dia_destino \in (IF Cardinality(DT) > 1 THEN DT \ {dia_fonte} ELSE DT)} :
                dia_fonte \in DT} :
          pv \in PV}

\* MOVIMENTO 7, CASO 1 to 3 for the draw x of the lecture aux witnessed at w
CasoTipoSala(n, w, aux, x) ==
    LET c == n[x[1]][x[2]]
    IN  \/ c = -1 /\ sala[x[2]].tipo_sala = disc[aux].tipo_sala
        \/ /\ c # -1
           /\ sala[x[2]].tipo_sala = disc[aux].tipo_sala
           /\ disc[c].tipo_sala = sala[w[2]].tipo_sala
        \/ c # -1 /\ disc[c].tipo_sala # sala[x[2]].tipo_sala

\* MOVIMENTO 7, the loop while(aux2 == -2) from the value aux3 of its counter:
\* the grids it can leave, each with the number of draws made
RECURSIVE LacoTipoSala(_, _, _, _, _)
LacoTipoSala(n, w, aux, aux3, tent) ==
    UNION {IF CasoTipoSala(n, w, aux, x) \/ aux3 >= tent
           THEN {[n |-> Troca(n, w, x), sorteios |-> aux3 + 1]}
           ELSE LacoTipoSala(n, w, aux, aux3 + 1, tent) : x \in Celulas}

\* MOVIMENTO 7 whose loop accepts only the draws of CASO 1 to 3
movTipoSala_semCaso4(n, s, t) ==
    LET W == {c \in Disciplinas : s.aux_mov_r10[c][0] # -1}
    IN  IF W = {} THEN {Indefinido(n, s)}
        ELSE UNION {
              {Res(Troca(n, Decodifica(s.aux_mov_r10[aux][1]), x),
                   [menosViolacoes(s, 10, 1) EXCEPT
                       !.aux_mov_r10 = semPar(s.aux_mov_r10, aux)]) :
                  x \in {y \in Celulas :
                            CasoTipoSala(n, Decodifica(s.aux_mov_r10[aux][1]), aux, y)}} :
              aux \in W}

\* MOVIMENTO 7: room type (R10)
movTipoSala(n, s, t) ==
    LET W == {c \in Disciplinas : s.aux_mov_r10[c][0] # -1}
    IN  IF W = {} THEN {Indefinido(n, s)}
        ELSE UNION {
              {Res(Troca(n, Decodifica(s.aux_mov_r10[aux][1]), x),
                   [menosViolacoes(s, 10, 1) EXCEPT
                       !.aux_mov_r10 = semPar(s.aux_mov_r10, aux)]) : x \in Celulas} :
              aux \in W}

\* MOVIMENTO 8, the loop while(aux2 == -2 && aux3 < tentativas * 3) from the
\* value aux3 of its counter, for the lecture witnessed at w: the grids it can
\* leave, each with the number of draws made.  A draw on the day of w changes
\* nothing but aux3.
RECURSIVE LacoDistribuicao(_, _, _, _)
LacoDistribuicao(n, w, aux3, tent) ==
    LET Outro == {y \in Celulas : y[1] \div periodos_dia # w[1] \div periodos_dia}
    IN  IF aux3 >= tent * 3 THEN {[n |-> n, sorteios |-> aux3]}
        ELSE {[n |-> Troca(n, w, x), sorteios |-> aux3 + 1] : x \in Outro}
             \cup (IF Outro # Celulas
                   THEN LacoDistribuicao(n, w, aux3 + 1, tent) ELSE {})

\* MOVIMENTO 8 whose loop draws until a cell of another day comes
movDistribuicao_semLimite(n, s, t) ==
    LET W == {x \in Celulas : s.aux_mov_r11[x[1]][x[2]] # -1}
    IN  IF W = {} THEN {Res(n, s)}
        ELSE LET w == CHOOSE x \in W :
                        \A y \in W : x[1] < y[1] \/ (x[1] = y[1] /\ x[2] <= y[2])
                 s1 == [s EXCEPT !.aux_mov_r11 = semCelula(s.aux_mov_r11, w)]
             IN  {Res(Troca(n, w, x), s1) :
                     x \in {y \in Celulas :
                               y[1] \div periodos_dia # w[1] \div periodos_dia}}

\* MOVIMENTO 8: a course twice on a day (R11)
movDistribuicao(n, s, t) ==
    LET W == {x \in Celulas : s.aux_mov_r11[x[1]][x[2]] # -1}
    IN  IF W = {} THEN {Res(n, s)}
        ELSE LET w == CHOOSE x \in W :
                        \A y \in W : x[1] < y[1] \/ (x[1] = y[1] /\ x[2] <= y[2])
                 s1 == [s EXCEPT !.aux_mov_r11 = semCelula(s.aux_mov_r11, w)]
             IN  {Res(n, s1)} \cup
                 {Res(Troca(n, w, x), s1) :
                     x \in {y \in Celulas :
                               y[1] \div periodos_dia # w[1] \div periodos_dia}}

\* MOVIMENTOS 9, 10, 11: random swaps in a period, in a room, anywhere
movMesmoPeriodo(n, s, t) ==
    {Res(g, s) : g \in TrocasAleatorias(n, ParesMesmoPeriodo, 2 * tentativas(t))}
movMesmaSala(n, s, t) ==
    {Res(g, s) : g \in TrocasAleatorias(n, ParesMesmaSala, 2 * tentativas(t))}
movAleatorio(n, s, t) ==
    {Res(g, s) : g \in TrocasAleatorias(n, ParesLivres, tentativas(t))}

Movimento(classe, n, s, t) ==
    CASE classe = 1 -> movProfessor(n, s, t)
      [] classe = 2 -> movCurso(n, s, t)
      [] classe = 3 -> movCompacidade(n, s, t)
      [] classe = 4 -> movCapacidade(n, s, t)
      [] classe = 5 -> movEstabilidade(n, s, t)
      [] classe = 6 -> movCargaProfessor(n, s, t)
      [] classe = 7 -> movTipoSala(n, s, t)
      [] classe = 8 -> movDistribuicao(n, s, t)
      [] classe = 9 -> movMesmoPeriodo(n, s, t)
      [] classe = 10 -> movMesmaSala(n, s, t)
      [] OTHER -> movAleatorio(n, s, t)

\* the results of geraViz on grid n with the indices s at temperature t
geraViz(n, s, t) ==
    UNION {Movimento(classe, n, s, t) :
              classe \in {Despacho(movimento, s) : movimento \in 0..1000}}

(***************************************************************************)
(* SA.                                                                     *)
(***************************************************************************)
\* delta << 2 on a 32-bit int (two's complement, as gcc compiles it)
Desloca2(d) ==
    LET baixo == (d % 536870912) * 4
    IN  IF (d \div 536870912) % 2 = 1 THEN (baixo - 2147483647) - 1 ELSE baixo

RECURSIVE Dez(_)
Dez(k) == IF k <= 0 THEN 1 ELSE 10 * Dez(k - 1)

\* randomDouble(0.0, 1.0) < exp(-1 * (delta / T)) for delta >= 0, the draw being
\* one of 0.0000, 0.0001, ..., 0.9999.
\* Some draw accepts: the exponential is not 0, delta / T is at most 745.
PodeAceitar(delta, t) ==
    IF t.e >= 5 THEN delta \div Dez(t.e - 5) <= 745 * t.m
    ELSE IF 5 - t.e >= 9 THEN delta <= 0
    ELSE delta <= (745 * t.m) \div Dez(5 - t.e)

\* Some draw rejects: the exponential is at most 0.9999, delta / T >= 0.000100005.
PodeRejeitar(delta, t) ==
    IF delta <= 0 THEN FALSE
    ELSE IF t.e <= 3 THEN delta >= (IF t.e = 3 /\ t.m > 999950 THEN 2 ELSE 1)
    ELSE IF t.e > 6 \/ delta > 1100 THEN delta > 1100
    ELSE LET N == t.m * Dez(t.e - 4)
         IN  (delta * 100000) - N >= (N + 19999) \div 20000

\* while ((T > Tfinal) && (melhor.fo > 0) && (fim_forcado < 8000))
Continua ==
    /\ Maior(sa.T, Tfinal)
    /\ melhor.fo > 0
    /\ sa.fim_forcado < 8000

\* geraViz can return the grid unchanged
SemEfeito(n, s, t) == {o \in geraViz(n, s, t) : o.n = n /\ ~ o.ub} # {}

\* the rest of the for loop can leave atual as it is: every neighbour equals
\* atual (delta = 0 is always accepted), first with the indices s, then with
\* the indices of atual
RestoQuieto(s) ==
    LET f == calcula_FO(atual.n)
    IN  IF Menor(sa.T, Pot10(2)) \/ s = f
        THEN SemEfeito(atual.n, f, sa.T)
        ELSE SemEfeito(atual.n, f, sa.T) /\ SemEfeito(atual.n, s, sa.T)

\* the end of one outer iteration, as T and reaquecimento
Cabeca(x) ==
    [T |-> ProximaT(x.T, x.reaquecimento),
     reaquecimento |-> ProximoReaquecimento(x.T, x.reaquecimento)]

\* k successive loop heads after x
RECURSIVE Trecho(_, _)
Trecho(x, k) ==
    IF k = 1 THEN <<Cabeca(x)>>
    ELSE LET a == Trecho(x, k \div 2)
         IN  a \o Trecho(a[Len(a)], k - (k \div 2))

\* T and reaquecimento at the successive heads of the outer loop, from the start
\* to the first head with T <= Tfinal (fewer than 8000 heads)
Trilha ==
    LET x0 == [T |-> Tinicial, reaquecimento |-> 1]
        todas == <<x0>> \o Trecho(x0, 8000)
        n == Cardinality({k \in 1..Len(todas) : Maior(todas[k].T, Tfinal)})
    IN  SubSeq(todas, 1, IF n < Len(todas) THEN n + 1 ELSE n)

\* the decades of T (exponents of ten) whose first outer iteration is followed
\* pass by pass: the start, the first below 100, the last
Seguidas == {6, 1, -5}

\* the heads followed: the first head of Trilha in such a decade
Seguidos ==
    {k \in 1..(Len(Trilha) - 1) :
        /\ Trilha[k].T.e \in Seguidas
        /\ k = 1 \/ Trilha[k - 1].T.e # Trilha[k].T.e}

\* where the skipping of outer iterations stops: a followed head, or the end
Paradas == Seguidos \cup {Len(Trilha)}

\* the head of Trilha the loop is at
Posicao(r) ==
    CHOOSE k \in Seguidos \cup {j + 1 : j \in Seguidos} :
        Trilha[k] = [T |-> r.T, reaquecimento |-> r.reaquecimento]

\* solucaoInicial returns (evaluation of the grid) and SA starts
IniciaSA ==
    /\ pc = "solucaoInicial"
    /\ constr.j >= disciplinas
    /\ idx' = calcula_FO(matriz.n)
    /\ matriz' = [matriz EXCEPT !.fo = idx'.fo]
    /\ atual' = matriz'
    /\ melhor' = matriz'
    /\ viz' = criaMatriz
    /\ sa' = [T |-> Tinicial, i |-> 0, fim_forcado |-> 0, reaquecimento |-> 1]
    /\ pc' = "SA"
    /\ UNCHANGED <<heap, inst, rotina, usar_restricao_integral, dias_ocupados_integral,
                   num_profs_da_integral, integral, constr>>

\* the head of the outer loop: one more outer iteration
EntraLaco ==
    /\ pc = "SA"
    /\ Continua
    /\ Posicao(sa) \in Seguidos
    /\ sa' = [sa EXCEPT !.fim_forcado = @ + 1, !.i = 0]
    /\ pc' = "iteracao"
    /\ UNCHANGED <<heap, inst, rotina, usar_restricao_integral, dias_ocupados_integral,
                   num_profs_da_integral, idx, matriz, integral, constr, atual,
                   melhor, viz>>

\* criterio that leaves melhor as it is
criterio_semMelhor(at, me, v, ff, t) ==
    LET delta == Desloca2(v.fo - at.fo)
    IN  IF delta < 0
        THEN {[atual |-> v, melhor |-> me, fim_forcado |-> ff]}
        ELSE (IF PodeAceitar(delta, t)
              THEN {[atual |-> v, melhor |-> me, fim_forcado |-> ff]} ELSE {})
             \cup
             (IF PodeRejeitar(delta, t)
              THEN {[atual |-> at, melhor |-> me, fim_forcado |-> ff]} ELSE {})

\* criterio taking every accepted improvement of atual for melhor
criterio_semComparacao(at, me, v, ff, t) ==
    LET delta == Desloca2(v.fo - at.fo)
    IN  IF delta < 0
        THEN {[atual |-> v, melhor |-> v, fim_forcado |-> 0]}
        ELSE (IF PodeAceitar(delta, t)
              THEN {[atual |-> v, melhor |-> me, fim_forcado |-> ff]} ELSE {})
             \cup
             (IF PodeRejeitar(delta, t)
              THEN {[atual |-> at, melhor |-> me, fim_forcado |-> ff]} ELSE {})

\* the acceptance step of one neighbour v: the values of atual, melhor and
\* fim_forcado it can leave
criterio(at, me, v, ff, t) ==
    LET delta == Desloca2(v.fo - at.fo)
    IN  IF delta < 0
        THEN {[atual |-> v,
               melhor |-> IF v.fo < me.fo THEN v ELSE me,
               fim_forcado |-> IF v.fo < me.fo THEN 0 ELSE ff]}
        ELSE (IF PodeAceitar(delta, t)
              THEN {[atual |-> v, melhor |-> me, fim_forcado |-> ff]} ELSE {})
             \cup
             (IF PodeRejeitar(delta, t)
              THEN {[atual |-> at, melhor |-> me, fim_forcado |-> ff]} ELSE {})

\* the indices geraViz reads when the for loop calls it on the copy of atual:
\* those of the copy if(T < 100), otherwise those the last evaluation left
IndicesNaChamada == IF Menor(sa.T, Pot10(2)) THEN calcula_FO(atual.n) ELSE idx

\* one pass of the for loop: copiaMatriz(&viz, atual); if(T < 100) viz.fo =
\* calcula_FO(viz); viz = geraViz(viz); viz.fo = calcula_FO(viz); delta; the
\* acceptance step; i++
Iteracao ==
    /\ pc = "iteracao"
    /\ sa.i < maxIteracoes(sa.T)
    /\ sa.i < MaxIter
    /\ LET frio == Menor(sa.T, Pot10(2))
           s0 == IndicesNaChamada
       IN  \E o \in geraViz(atual.n, s0, sa.T) :
              IF o.ub
              THEN /\ viz' = [n |-> o.n, fo |-> IF frio THEN s0.fo ELSE atual.fo]
                   /\ idx' = o.s
                   /\ pc' = "indefinido"
                   /\ UNCHANGED <<atual, melhor, sa>>
              ELSE /\ idx' = calcula_FO(o.n)
                   /\ viz' = [n |-> o.n, fo |-> idx'.fo]
                   /\ \E r \in criterio(atual, melhor, viz', sa.fim_forcado, sa.T) :
                         /\ atual' = r.atual
                         /\ melhor' = r.melhor
                         /\ sa' = [sa EXCEPT !.i = @ + 1,
                                             !.fim_forcado = r.fim_forcado]
                   /\ pc' = "iteracao"
    /\ UNCHANGED <<heap, inst, rotina, usar_restricao_integral, dias_ocupados_integral,
                   num_profs_da_integral, matriz, integral, constr>>

\* the end of the for loop (the iterations not followed one by one leave atual
\* as it is), then the reheating or the cooling
Resfria ==
    /\ pc = "iteracao"
    /\ \/ sa.i >= maxIteracoes(sa.T)
       \/ sa.i >= MaxIter /\ RestoQuieto(idx)
    /\ IF sa.i < maxIteracoes(sa.T)
       THEN /\ idx' = calcula_FO(atual.n)
            /\ viz' = atual
       ELSE UNCHANGED <<idx, viz>>
    /\ sa' = [sa EXCEPT !.i = maxIteracoes(sa.T),
                        !.T = ProximaT(sa.T, sa.reaquecimento),
                        !.reaquecimento = ProximoReaquecimento(sa.T, sa.reaquecimento)]
    /\ pc' = "SA"
    /\ UNCHANGED <<heap, inst, rotina, usar_restricao_integral, dias_ocupados_integral,
                   num_profs_da_integral, matriz, integral, constr, atual, melhor>>

\* outer iterations whose neighbours all equal atual, up to the next followed
\* head, the end of Trilha, or fim_forcado = 8000
Salto ==
    /\ pc = "SA"
    /\ Continua
    /\ RestoQuieto(idx)
    /\ LET k == Posicao(sa)
           p == CHOOSE j \in Paradas : j > k /\ \A q \in Paradas : q > k => j <= q
           j == IF sa.fim_forcado + (p - k) > 8000
                THEN k + (8000 - sa.fim_forcado) ELSE p
       IN  sa' = [T |-> Trilha[j].T,
                  i |-> maxIteracoes(Trilha[j - 1].T),
                  fim_forcado |-> sa.fim_forcado + (j - k),
                  reaquecimento |-> Trilha[j].reaquecimento]
    /\ idx' = calcula_FO(atual.n)
    /\ viz' = atual
    /\ UNCHANGED <<heap, inst, rotina, usar_restricao_integral, dias_ocupados_integral,
                   num_profs_da_integral, matriz, integral, constr, atual, melhor, pc>>

\* SA returns melhor; construcao evaluates it once more and counts the routine
Termina ==
    /\ pc = "SA"
    /\ ~ Continua
    /\ matriz' = melhor
    /\ idx' = calcula_FO(melhor.n)
    /\ rotina' = rotina + 1
    /\ pc' = "fim"
    /\ UNCHANGED <<heap, inst, usar_restricao_integral, dias_ocupados_integral,
                   num_profs_da_integral, integral, constr, atual, melhor, viz, sa>>

\* salvaResultado, RELATORIO DE VIOLACOES: the count written for constraint k
salvaResultado(rv) == [k \in 1..11 |-> IF rv[k] > 0 THEN rv[k] ELSE 0]

Next ==
    \/ Sorteio
    \/ ProximaDisciplina
    \/ IniciaSA
    \/ EntraLaco
    \/ Iteracao
    \/ Resfria
    \/ Salto
    \/ Termina

Spec == Init /\ [][Next]_vars

\* solucaoInicial keeps running: a pass of the while loop that changes the
\* state is not delayed for ever, nor the step of the for loop.  (A draw that
\* cannot place leaves only cont changed, and cont is capped: the passes left
\* are those that place a lecture.)
SpecJusta ==
    /\ Spec
    /\ WF_vars(Sorteio)
    /\ WF_vars(ProximaDisciplina)

(***************************************************************************)
(* SpecMem: the blocks of the two-phase run.  main calls construcao for    *)
(* the first instance, extraiDiasDaMatriz, construcao for the second       *)
(* instance, and frees at its end.                                         *)
(***************************************************************************)
\* the arrays of leArquivos: problem data, then aux_mov_* and r*
Dados == {"disc", "prof", "sala", "curso", "restricao", "posicao_restricao[0]",
          "posicao_restricao[1]"}
Indices == {"aux_mov_r21", "aux_mov_r22", "aux_mov_r4", "aux_mov_r5", "aux_mov_r6",
            "aux_mov_r7", "aux_mov_r8", "aux_mov_r9", "aux_mov_r10", "aux_mov_r11",
            "r1", "r21", "r22", "r5", "r8", "r9", "r11"}

\* the grids of criaMatriz: one in solucaoInicial, three in SA
Grades == {"matriz.n", "atual.n", "melhor.n", "viz.n"}

\* rows 0..q-1 of the array nome of phase f
Linhas(f, nome, q) == {<<f, nome, i>> : i \in 0..(q - 1)}

\* the rows reached by loops running up to the counters c (row i of "disc" is
\* disc[i].cursos, row i of "curso" is curso[i].disciplina)
LinhasAte(f, c) ==
    Linhas(f, "disc", c.disciplinas) \cup Linhas(f, "curso", c.cursos)
    \cup UNION {Linhas(f, nome, c.total_periodos) :
                   nome \in {"r21", "r22", "aux_mov_r6", "aux_mov_r11"}}
    \cup UNION {Linhas(f, nome, c.disciplinas) :
                   nome \in {"r5", "aux_mov_r7", "aux_mov_r10"}}
    \cup Linhas(f, "r9", c.professores)
    \cup Linhas(f, "r11", c.dias)

\* the global counters as leArquivos leaves them for the instance I
Contadores(I) ==
    [disciplinas |-> I.disciplinas, cursos |-> I.cursos,
     professores |-> I.professores, dias |-> I.dias,
     total_periodos |-> I.periodos_dia * I.dias]

\* construcao has set the counters to 0; total_periodos is not among them
ContadoresZerados(I) ==
    [disciplinas |-> 0, cursos |-> 0, professores |-> 0, dias |-> 0,
     total_periodos |-> I.periodos_dia * I.dias]

\* the mallocs of leArquivos for the instance I in phase f
BlocosLidos(f, I) ==
    {<<f, nome, -1>> : nome \in Dados \cup Indices} \cup LinhasAte(f, Contadores(I))

\* the mallocs of the four calls of criaMatriz
BlocosDasGrades(f, I) ==
    UNION {{<<f, nome, -1>>} \cup Linhas(f, nome, I.periodos_dia * I.dias) :
              nome \in Grades}

\* the mallocs of extraiDiasDaMatriz
BlocosDosDias(num_profs) ==
    {<<1, "dias_ocupados", -1>>} \cup Linhas(1, "dias_ocupados", num_profs)

\* the frees of leArquivos (rotina > 0) and of the end of main: the arrays and
\* the rows reached with the counters c
Liberados(f, c) ==
    {<<f, nome, -1>> : nome \in Dados \cup Indices} \cup LinhasAte(f, c)

malloc(h, B) == [h EXCEPT !.alocados = @ \cup B]

free(h, B) ==
    [h EXCEPT !.liberados = @ \cup B, !.duplos = @ \cup (B \cap h.liberados)]

InstanciasIntegral == InstanciasFO \cup (InstanciasSA \ {Inst1x1(2, 0)})
InstanciasNoturno == Noturnas \cup {InstC, InstD, InstTipo}

InitMem ==
    /\ inst \in InstanciasIntegral
    /\ rotina = 0
    /\ usar_restricao_integral = 0
    /\ dias_ocupados_integral = << >>
    /\ num_profs_da_integral = 0
    /\ idx = << >>
    /\ matriz = [n |-> << >>, fo |-> 0]
    /\ integral = [n |-> << >>, fo |-> 0]
    /\ constr = [j |-> 0, atribuicoes |-> 0, cont |-> 0]
    /\ atual = [n |-> << >>, fo |-> 0]
    /\ melhor = [n |-> << >>, fo |-> 0]
    /\ viz = [n |-> << >>, fo |-> 0]
    /\ sa = [T |-> Tinicial, i |-> 0, fim_forcado |-> 0, reaquecimento |-> 1]
    /\ heap = SemBlocos
    /\ pc = "main"

\* construcao of the first timetable: leArquivos with rotina = 0 frees nothing
ConstrucaoIntegral ==
    /\ pc = "main"
    /\ heap' = malloc(malloc(heap, BlocosLidos(1, inst)), BlocosDasGrades(1, inst))
    /\ rotina' = rotina + 1
    /\ pc' = "integral"
    /\ UNCHANGED <<inst, usar_restricao_integral, dias_ocupados_integral,
                   num_profs_da_integral, idx, matriz, integral, constr, atual,
                   melhor, viz, sa>>

\* main up to the second construcao: extraiDiasDaMatriz; construcao sets the
\* counters to 0 and calls leArquivos, which frees (rotina > 0) and allocates
\* for the second instance
ConstrucaoNoturno ==
    /\ pc = "integral"
    /\ num_profs_da_integral' = professores
    /\ usar_restricao_integral' = 1
    /\ inst' \in InstanciasNoturno
    /\ LET h1 == malloc(heap, BlocosDosDias(professores))
           h2 == IF rotina > 0 THEN free(h1, Liberados(1, ContadoresZerados(inst))) ELSE h1
       IN  heap' = malloc(malloc(h2, BlocosLidos(2, inst')), BlocosDasGrades(2, inst'))
    /\ rotina' = 2
    /\ pc' = "noturno"
    /\ UNCHANGED <<dias_ocupados_integral, idx, matriz, integral, constr, atual,
                   melhor, viz, sa>>

\* LIBERACAO FINAL COMPLETA of main
LiberacaoFinal ==
    /\ pc = "noturno"
    /\ heap' = free(free(heap, BlocosDosDias(num_profs_da_integral)),
                    Liberados(2, Contadores(inst)))
    /\ pc' = "liberado"
    /\ UNCHANGED <<inst, rotina, usar_restricao_integral, dias_ocupados_integral,
                   num_profs_da_integral, idx, matriz, integral, constr, atual,
                   melhor, viz, sa>>

NextMem == ConstrucaoIntegral \/ ConstrucaoNoturno \/ LiberacaoFinal

SpecMem == InitMem /\ [][NextMem]_vars

(***************************************************************************)
(* The constraint catalog stated on the grid alone (no index of the        *)
(* evaluator is read): the reference against which calcula_FO is checked.  *)
(***************************************************************************)
G == matriz.n
Aulas == {x \in Periodos \X Salas : G[x[1]][x[2]] # -1}
AulasDe(c) == {x \in Aulas : G[x[1]][x[2]] = c}
DiaDe(x) == x[1] \div periodos_dia
Pos(v) == IF v > 0 THEN v ELSE 0

RECURSIVE Total(_, _)
Total(f, S) ==
    IF S = {} THEN 0
    ELSE LET x == CHOOSE y \in S : \A z \in S : y = z \/ y # z
         IN  f[x] + Total(f, S \ {x})

\* days on which teacher t teaches: in the grid, or inherited from the first timetable
Herdado(t, d) ==
    /\ usar_restricao_integral = 1
    /\ t < num_profs_da_integral
    /\ dias_ocupados_integral[t][d] = 1
DiasDoProf(t) ==
    {d \in Dias : Herdado(t, d) \/ \E x \in Aulas : disc[G[x[1]][x[2]]].prof = t /\ DiaDe(x) = d}
DiasDaDisc(c) == {DiaDe(x) : x \in AulasDe(c)}
SalasDaDisc(c) == {x[2] : x \in AulasDe(c)}
Indisponivel(x) ==
    \E r \in 0..(restricoes - 1) :
        /\ restricao[r].disciplina = G[x[1]][x[2]]
        /\ restricao[r].dia = DiaDe(x)
        /\ restricao[r].per = x[1] % periodos_dia
\* lecture x is isolated in curriculum k: no lecture of k one period before or after, same day
Isolada(x, k) ==
    /\ disc[G[x[1]][x[2]]].cursos[k] = 1
    /\ ~ \E y \in Aulas :
            /\ disc[G[y[1]][y[2]]].cursos[k] = 1
            /\ DiaDe(y) = DiaDe(x)
            /\ (y[1] = x[1] + 1 \/ y[1] = x[1] - 1)
\* the first lecture of c in scan order (period, then room)
Primeira(c) ==
    CHOOSE x \in AulasDe(c) :
        \A y \in AulasDe(c) : x[1] < y[1] \/ (x[1] = y[1] /\ x[2] <= y[2])

RefR1 == Total([c \in Disciplinas |->
                  1000000 * modulo(Cardinality(AulasDe(c)), disc[c].aulas)], Disciplinas)
RefR2T == Total([x \in Periodos \X Professores |->
                  1000000 * Pos(Cardinality({y \in Aulas : y[1] = x[1] /\
                        disc[G[y[1]][y[2]]].prof = x[2]}) - 1)],
                Periodos \X Professores)
RefR2C == Total([x \in Periodos \X Cursos |->
                  1000000 * Pos(Cardinality({y \in Aulas : y[1] = x[1] /\
                        disc[G[y[1]][y[2]]].cursos[x[2]] = 1}) - 1)],
                Periodos \X Cursos)
RefR4 == 1000000 * Cardinality({x \in Aulas : Indisponivel(x)})
RefR5 == Total([c \in Disciplinas |->
                  Pos(5 * (disc[c].minDias - Cardinality(DiasDaDisc(c))))], Disciplinas)
RefR6 == 2 * Cardinality({z \in Aulas \X Cursos : Isolada(z[1], z[2])})
RefR7 == Total([x \in Aulas |->
                  Pos(disc[G[x[1]][x[2]]].alunos - sala[x[2]].capacidade)], Aulas)
RefR8 == Cardinality({x \in Aulas : x[2] # Primeira(G[x[1]][x[2]])[2]})
RefR9 == Total([t \in Professores |-> Pos(5 * (Cardinality(DiasDoProf(t)) - 2))],
               Professores)
RefR10 == 1000000 * Cardinality({x \in Aulas :
                  disc[G[x[1]][x[2]]].tipo_sala # sala[x[2]].tipo_sala})
RefR11 == Total([x \in Dias \X Disciplinas |->
                  1000000 * Pos(Cardinality({y \in AulasDe(x[2]) : DiaDe(y) = x[1]}) - 1)],
                Dias \X Disciplinas)

RefFO == RefR1 + RefR2T + RefR2C + RefR4 + RefR5 + RefR6 + RefR7 + RefR8 + RefR9
         + RefR10 + RefR11

\* the catalog's constraints as predicates: the grid violates none of them
SemViolacao ==
    /\ \A c \in Disciplinas : Cardinality(AulasDe(c)) = disc[c].aulas
    /\ \A x \in Aulas, y \in Aulas :
          (x # y /\ x[1] = y[1]) =>
             /\ disc[G[x[1]][x[2]]].prof # disc[G[y[1]][y[2]]].prof
             /\ \A k \in Cursos : ~ (disc[G[x[1]][x[2]]].cursos[k] = 1
                                     /\ disc[G[y[1]][y[2]]].cursos[k] = 1)
    /\ \A x \in Aulas : ~ Indisponivel(x)
    /\ \A c \in Disciplinas : Cardinality(DiasDaDisc(c)) >= disc[c].minDias
    /\ \A x \in Aulas, k \in Cursos : ~ Isolada(x, k)
    /\ \A x \in Aulas : disc[G[x[1]][x[2]]].alunos <= sala[x[2]].capacidade
    /\ \A c \in Disciplinas : Cardinality(SalasDaDisc(c)) <= 1
    /\ \A t \in Professores : Cardinality(DiasDoProf(t)) <= 2
    /\ \A x \in Aulas : disc[G[x[1]][x[2]]].tipo_sala = sala[x[2]].tipo_sala
    /\ \A x \in Aulas, y \in Aulas :
          (x # y /\ G[x[1]][x[2]] = G[y[1]][y[2]]) => DiaDe(x) # DiaDe(y)

Avaliado == pc = "avaliado"

(***************************************************************************)
(* C1: after a full evaluation fo >= 0, and fo = 0 exactly when the grid   *)
(* violates none of R1, R2, R4, R5, R6, R7, R8, R9, R10, R11.              *)
(***************************************************************************)
C1_FoZeroSseSemViolacao ==
    Avaliado => (matriz.fo >= 0 /\ (matriz.fo = 0 <=> SemViolacao))

\* an evaluated non-empty grid with fo = 0
C1_Witness == Avaliado /\ matriz.fo = 0 /\ Cardinality(Aulas) >= 4

SalasExtra(c) == Pos(Cardinality(SalasDaDisc(c)) - 1)

C3_R8PorSalaExtra ==
    Avaliado =>
        /\ \A c \in Disciplinas :
              Cardinality({x \in AulasDe(c) : x[2] # idx.r8[c]}) = SalasExtra(c)
        /\ matriz.fo - (RefFO - RefR8)
              = Total([c \in Disciplinas |-> SalasExtra(c)], Disciplinas)

(***************************************************************************)
(* C4: evaluating the grid whose cells are all EMPTY.  The claim as        *)
(* stated (fo is the sum of 1e6 * lecture_count) and as amended (plus 5    *)
(* per minimum day of every course, plus the R9 penalty of the inherited   *)
(* teacher days).                                                          *)
(***************************************************************************)
GradeVazia == Aulas = {}
HerdadoR9 ==
    Total([t \in Professores |->
              Pos(5 * (Cardinality({d \in Dias : Herdado(t, d)}) - 2))], Professores)

C4_VaziaSomaAulas ==
    (Avaliado /\ GradeVazia) =>
        matriz.fo = Total([c \in Disciplinas |-> 1000000 * disc[c].aulas], Disciplinas)

C4_VaziaAulasMinDias ==
    (Avaliado /\ GradeVazia) =>
        matriz.fo = Total([c \in Disciplinas |->
                              (1000000 * disc[c].aulas) + (5 * Pos(disc[c].minDias))],
                          Disciplinas)
                    + HerdadoR9

\* the empty grid evaluated for an instance with lectures and minimum days to place
C4_Witness ==
    /\ Avaliado /\ GradeVazia
    /\ disc[0].aulas = 2 /\ disc[0].minDias = 2

DiasIntegralProf0 ==
    {i \in DOMAIN integral.n : \E j \in DOMAIN integral.n[i] : integral.n[i][j] = 0}

CenarioS6(d) ==
    /\ Avaliado /\ rotina = 1
    /\ DiasIntegralProf0 = {0, 1}
    /\ Cardinality(Aulas) = 1
    /\ \E x \in Aulas : disc[G[x[1]][x[2]]].prof = 0 /\ DiaDe(x) = d

C9_S6HerdaDias ==
    /\ CenarioS6(2) =>
          /\ DiasComAula(idx, 0) = 3
          /\ PenalidadeR9(idx, 0) = 5
          /\ (professores = 1 => matriz.fo = 5)
    /\ (CenarioS6(0) \/ CenarioS6(1)) =>
          /\ DiasComAula(idx, 0) = 2
          /\ PenalidadeR9(idx, 0) = 0
          /\ (professores = 1 => matriz.fo = 0)

C9_Witness == CenarioS6(2) /\ professores = 1 /\ matriz.fo = 5

(***************************************************************************)
(* The search: solucaoInicial followed by SA (specification Spec).  Until  *)
(* SA returns, matriz is the initial solution.                             *)
(***************************************************************************)
NaBusca == pc \in {"SA", "iteracao"}

\* the courses with no lecture to schedule
SemAulas == {c \in Disciplinas : disc[c].aulas = 0}

Ocupa(n, c) == \E x \in Celulas : n[x[1]][x[2]] = c

TotalR11(s, c) == Total([d \in Dias |-> PenalidadeR11(s, d, c)], Dias)

\* idx is the evaluation of matriz.n: solucaoInicial or SA has just returned
MatrizAvaliada == (pc = "SA" /\ sa.T = Tinicial) \/ pc = "fim"

\* the catalog's penalties of grid G without R1, R5 and R11 of the courses with
\* no lecture
RefDasComAulas ==
    Total([c \in Disciplinas \ SemAulas |->
              (1000000 * modulo(Cardinality(AulasDe(c)), disc[c].aulas))
              + Pos(5 * (disc[c].minDias - Cardinality(DiasDaDisc(c))))
              + Total([d \in Dias |->
                         1000000 * Pos(Cardinality({y \in AulasDe(c) : DiaDe(y) = d}) - 1)],
                      Dias)],
          Disciplinas \ SemAulas)
    + RefR2T + RefR2C + RefR4 + RefR6 + RefR7 + RefR8 + RefR9 + RefR10

GradeValida(n) ==
    /\ DOMAIN n = Periodos
    /\ \A i \in Periodos :
          /\ DOMAIN n[i] = Salas
          /\ \A j \in Salas : n[i][j] = -1 \/ n[i][j] \in Disciplinas

\* C6: after every call of geraViz the grid it returns has total_periodos rows
\* of salas cells, each empty or holding a course.
C6_GradeValidaAposGeraViz ==
    (NaBusca \/ pc = "indefinido") => GradeValida(viz.n)

\* C7: in SA melhor.fo never increases from one pass of the inner loop to the
\* next, and melhor changes only to a neighbour whose fo is below it.
C7_MelhorNaoPiora ==
    [][NaBusca => /\ melhor'.fo <= melhor.fo
                  /\ melhor' # melhor => (melhor' = viz' /\ viz'.fo < melhor.fo)]_vars

C7_Witness ==
    /\ pc = "iteracao"
    /\ melhor = viz
    /\ melhor.fo < matriz.fo
    /\ atual = melhor

\* C10: when solucaoInicial returns every course holds as many cells as it has
\* lectures, so the evaluation charges nothing for R1; while it runs, a filled
\* cell keeps its course.
C10_InicialCompleta ==
    /\ [](NaBusca => /\ \A c \in Disciplinas :
                           Cardinality(AulasDe(c)) = disc[c].aulas
                     /\ RefR1 = 0
                     /\ sa.T = Tinicial /\ pc = "SA" =>
                           \A c \in Disciplinas : PenalidadeR1(idx, c) = 0)
    /\ [][pc = "solucaoInicial" =>
            \A x \in Celulas :
                matriz.n[x[1]][x[2]] # -1 =>
                    matriz'.n[x[1]][x[2]] = matriz.n[x[1]][x[2]]]_vars

\* solucaoInicial has returned a grid with a lecture forced into the small room
C10_Witness ==
    /\ pc = "SA"
    /\ sa.T = Tinicial
    /\ disc[0].aulas = 2
    /\ Cardinality(AulasDe(0)) = 2
    /\ \E i \in Periodos : matriz.n[i][1] = 0

(***************************************************************************)
(* The end of SA.                                                          *)
(***************************************************************************)
\* the heads of the outer loop at which pc = "SA" is observed
Cabecas == Paradas \cup {j + 1 : j \in Seguidos}

\* no pass has improved melhor: fim_forcado, reset by every improvement, still
\* counts all the outer iterations begun
SemMelhora ==
    \E k \in Cabecas :
        /\ Trilha[k] = [T |-> sa.T, reaquecimento |-> sa.reaquecimento]
        /\ sa.fim_forcado = k - 1

SaiDoLaco == pc = "SA" /\ ~ Continua

\* C11 as stated: a run of SA from fo > 0 in which no neighbour improves melhor
\* keeps melhor at the initial solution and leaves the outer loop with
\* fim_forcado having reached 8000.
C11_ParaPorEstagnacao ==
    (pc = "SA" /\ SemMelhora) =>
        /\ melhor = matriz
        /\ (SaiDoLaco /\ melhor.fo > 0) => sa.fim_forcado >= 8000

\* C11, amended: such a run keeps melhor at the initial solution and leaves the
\* outer loop because T has come down to Tfinal, with fim_forcado below 8000.
C11_ParaPelaTemperatura ==
    (pc = "SA" /\ SemMelhora) =>
        /\ melhor = matriz
        /\ (SaiDoLaco /\ melhor.fo > 0) =>
              (~ Maior(sa.T, Tfinal) /\ sa.fim_forcado < 8000)

\* the outer loop is left after a run without improvement on the 1 x 1 grid
\* whose only period is unavailable
C11_Witness ==
    /\ SaiDoLaco
    /\ SemMelhora
    /\ inst = Inst1x1(1, 1)
    /\ melhor.fo = 1000000
    /\ sa.fim_forcado > 0

(***************************************************************************)
(* The 1 x 1 instance whose only period is unavailable for its course.     *)
(***************************************************************************)
\* C12: on that instance solucaoInicial places the lecture in the only cell,
\* and from then on every evaluation, atual.fo and melhor.fo are at least
\* 1000000.
C12_R4Forcada ==
    (inst = Inst1x1(1, 1) /\ pc # "solucaoInicial") =>
        /\ matriz.n[0][0] = 0
        /\ idx.fo >= 1000000
        /\ atual.fo >= 1000000
        /\ melhor.fo >= 1000000
        /\ (pc = "iteracao" /\ sa.i > 0) => viz.fo >= 1000000

\* a neighbour of the forced placement has been evaluated and accepted
C12_Witness ==
    /\ inst = Inst1x1(1, 1)
    /\ pc = "iteracao"
    /\ sa.i > 0
    /\ viz.n[0][0] = 0
    /\ viz.fo = 1000000
    /\ atual = viz

(***************************************************************************)
(* The instance with one lecture that needs the room of type 2.            *)
(***************************************************************************)
\* the lecture of the only course is in room j of atual
AulaNaSala(n, j) == \E i \in Periodos : n[i][j] = 0

\* atual has the lecture in room 0 and SA is below T = 100
TipoErradoFrio ==
    /\ inst = InstTipo
    /\ NaBusca
    /\ Menor(sa.T, Pot10(2))
    /\ AulaNaSala(atual.n, 0)

\* the results of the loop of MOVIMENTO 7 on atual, freshly evaluated
LacoEmAtual ==
    LET s == calcula_FO(atual.n)
    IN  LacoTipoSala(atual.n, Decodifica(s.aux_mov_r10[0][1]), 0, 0, tentativas(sa.T))

\* C13 as stated: with the lecture in room 0 (fo = 1000000) the R10 operator
\* called below T = 100 ends within a bounded number of draws with the lecture
\* in room 1, and the evaluation then gives fo = 0.
C13_TipoSalaRealoca ==
    TipoErradoFrio =>
        LET s == calcula_FO(atual.n)
        IN  /\ s.fo = 1000000
            /\ Despacho(500, s) = 7
            /\ \A o \in movTipoSala(atual.n, s, sa.T) :
                  ~ o.ub /\ AulaNaSala(o.n, 1) /\ calcula_FO(o.n).fo = 0
            /\ \A o \in LacoEmAtual : o.sorteios <= tentativas(sa.T) + 1

\* C13, amended: the operator ends within tentativas + 1 draws and leaves the
\* lecture in the cell of its last draw; the result is room 1 for some draws,
\* and the evaluation gives fo = 0 exactly for those; for the others the
\* lecture is still in room 0 and fo is still 1000000.
C13_TipoSalaPodeRealocar ==
    TipoErradoFrio =>
        LET s == calcula_FO(atual.n)
            R == movTipoSala(atual.n, s, sa.T)
        IN  /\ s.fo = 1000000
            /\ Despacho(500, s) = 7
            /\ {o.n : o \in R} = {o.n : o \in LacoEmAtual}
            /\ \A o \in R :
                  /\ ~ o.ub
                  /\ AulaNaSala(o.n, 1) <=> calcula_FO(o.n).fo = 0
                  /\ AulaNaSala(o.n, 0) <=> calcula_FO(o.n).fo = 1000000
            /\ \E o \in LacoEmAtual : AulaNaSala(o.n, 1) /\ o.sorteios = 1
            /\ \E o \in LacoEmAtual : AulaNaSala(o.n, 0) /\ o.sorteios = 1
            /\ \A o \in LacoEmAtual : o.sorteios <= tentativas(sa.T) + 1

\* below T = 100 a pass has moved the lecture from room 0 to room 1 and melhor
\* has fo = 0
C13_Witness ==
    /\ inst = InstTipo
    /\ pc = "iteracao"
    /\ Menor(sa.T, Pot10(2))
    /\ AulaNaSala(matriz.n, 0)
    /\ viz.n \in {o.n : o \in movTipoSala(matriz.n, calcula_FO(matriz.n), sa.T)}
    /\ AulaNaSala(viz.n, 1)
    /\ melhor = viz
    /\ melhor.fo = 0

(***************************************************************************)
(* The instances with one course of 2 lectures on 2 days of 1 period.      *)
(***************************************************************************)
DuasAulas == inst \in {InstDias(2, 1), InstDias(2, 2)}

CelulasDe(n, c) == {x \in Celulas : n[x[1]][x[2]] = c}

\* grid n has the two lectures of course 0, both on one day
MesmoDia(n) ==
    /\ Cardinality(CelulasDe(n, 0)) = 2
    /\ Cardinality({x[1] \div periodos_dia : x \in CelulasDe(n, 0)}) = 1

\* the first cell, in scan order, with a witness of R11
TestemunhaR11(s) ==
    LET W == {x \in Celulas : s.aux_mov_r11[x[1]][x[2]] # -1}
    IN  CHOOSE x \in W : \A y \in W : x[1] < y[1] \/ (x[1] = y[1] /\ x[2] <= y[2])

\* C14 as stated: R11 is violated exactly when the two lectures are on one
\* day, and from such a grid the R11 operator puts them on different days
\* within a bounded number of draws, towards fo = 0.
C14_DistribuicaoSepara ==
    (DuasAulas /\ NaBusca) =>
        LET s == calcula_FO(atual.n)
        IN  /\ MesmoDia(atual.n) <=> s.restricoes_violadas[11] # -1
            /\ MesmoDia(atual.n) <=> s.fo >= 1000000
            /\ MesmoDia(atual.n) =>
                  /\ Despacho(600, s) = 8
                  /\ \A o \in movDistribuicao(atual.n, s, sa.T) :
                        ~ o.ub /\ ~ MesmoDia(o.n)
                  /\ \A o \in LacoDistribuicao(atual.n, TestemunhaR11(s), 0,
                                               tentativas(sa.T)) :
                        o.sorteios <= 3 * tentativas(sa.T)

\* C14, amended: R11 is violated exactly when the two lectures are on one day;
\* from such a grid the R11 operator, given the indices of the evaluation of
\* the grid, makes at most 3 * tentativas draws and either leaves the grid as
\* it is or moves one lecture to the other day, which ends the violation: the
\* evaluation then gives fo = 0 or, with the lectures in two rooms, fo = 1.
C14_DistribuicaoPodeSeparar ==
    (DuasAulas /\ NaBusca) =>
        LET s == calcula_FO(atual.n)
            R == movDistribuicao(atual.n, s, sa.T)
        IN  /\ MesmoDia(atual.n) <=> s.restricoes_violadas[11] # -1
            /\ MesmoDia(atual.n) <=> s.fo >= 1000000
            /\ MesmoDia(atual.n) =>
                  LET L == LacoDistribuicao(atual.n, TestemunhaR11(s), 0,
                                            tentativas(sa.T))
                  IN  /\ Despacho(600, s) = 8
                      /\ {o.n : o \in R} = {o.n : o \in L}
                      /\ \A o \in L : o.sorteios <= 3 * tentativas(sa.T)
                      /\ \A o \in R :
                            /\ ~ o.ub
                            /\ \/ o.n = atual.n
                               \/ /\ ~ MesmoDia(o.n)
                                  /\ calcula_FO(o.n).restricoes_violadas[11] = -1
                                  /\ calcula_FO(o.n).fo =
                                        (IF \E j \in Salas :
                                               Cardinality({x \in CelulasDe(o.n, 0) :
                                                              x[2] = j}) = 2
                                         THEN 0 ELSE 1)
                      /\ \E o \in R : o.n = atual.n
                      /\ \E o \in R : calcula_FO(o.n).fo = 0

\* a pass has moved one lecture of the initial grid, which had both on one
\* day, to the other day, and melhor has fo = 0
C14_Witness ==
    /\ inst = InstDias(2, 2)
    /\ pc = "iteracao"
    /\ MesmoDia(matriz.n)
    /\ viz.n \in {o.n : o \in movDistribuicao(matriz.n, calcula_FO(matriz.n), sa.T)}
    /\ ~ MesmoDia(viz.n)
    /\ melhor = viz
    /\ melhor.fo = 0

(***************************************************************************)
(* The report written after SA has returned and the grid was evaluated.    *)
(***************************************************************************)
\* C15: the counts the report gives for R1, R4, R8, R10 and R11 are the numbers
\* of violations in the final grid: courses with a wrong number of lectures,
\* lectures in unavailable periods, lectures outside the first room of their
\* course, lectures in a room of another type, extra lectures of a course on a
\* day.
C15_RelatorioContaViolacoes ==
    pc = "fim" =>
        LET rel == salvaResultado(idx.restricoes_violadas)
        IN  /\ rel[1] = Cardinality({c \in Disciplinas :
                                       Cardinality(AulasDe(c)) # disc[c].aulas})
            /\ rel[4] = Cardinality({x \in Aulas : Indisponivel(x)})
            /\ rel[8] = RefR8
            /\ rel[10] = Cardinality({x \in Aulas :
                             disc[G[x[1]][x[2]]].tipo_sala # sala[x[2]].tipo_sala})
            /\ rel[11] = RefR11 \div 1000000

(***************************************************************************)
(* The indices at the calls of geraViz.                                    *)
(***************************************************************************)
\* the for loop is about to call geraViz
VaiChamarGeraViz == pc = "iteracao" /\ sa.i < maxIteracoes(sa.T)

\* C16: at every call of geraViz made by SA, at any temperature, the counters
\* and the witnesses are those of the evaluation of the grid passed (the copy
\* of atual), also after a rejected neighbour.
C16_IndicesDaGradeMutada ==
    VaiChamarGeraViz => IndicesNaChamada = calcula_FO(atual.n)

(***************************************************************************)
(* The dispatch of geraViz when the evaluation found nothing to target.    *)
(***************************************************************************)
Alvos == {2, 6, 7, 8, 9, 10, 11}

\* the evaluation that left the indices s counted no violation of a
\* constraint with an operator
SemAlvo(s) == \A k \in Alvos : s.restricoes_violadas[k] = -1

\* the cells X of g and of n hold the same courses, as many times each
MesmoConteudo(g, n, X) ==
    \A c \in -1..(disciplinas - 1) :
        Cardinality({x \in X : g[x[1]][x[2]] = c})
            = Cardinality({x \in X : n[x[1]][x[2]] = c})

\* C17: when the last evaluation found no teacher or curriculum conflict and no
\* violation of R6 to R11, every draw of movimento in 0..1000 selects a random
\* class: swaps within a period for 700..799, within a room for 800..899,
\* anywhere for any other draw; no witness and no counter is touched.
C17_SoTrocasAleatorias ==
    /\ (MatrizAvaliada /\ RefR2T + RefR2C + RefR6 + RefR7 + RefR8 + RefR9
                          + RefR10 + RefR11 = 0) => SemAlvo(idx)
    /\ (VaiChamarGeraViz /\ SemAlvo(IndicesNaChamada)) =>
          LET s == IndicesNaChamada
              n == atual.n
          IN  /\ \A m \in 0..1000 :
                    Despacho(m, s) = (IF m >= 700 /\ m < 800 THEN 9
                                      ELSE IF m >= 800 /\ m < 900 THEN 10
                                      ELSE 11)
              /\ \A o \in geraViz(n, s, sa.T) :
                    ~ o.ub /\ o.s = s /\ MesmoConteudo(o.n, n, Celulas)
              /\ \A o \in Movimento(9, n, s, sa.T) :
                    \A i \in Periodos : MesmoConteudo(o.n, n, {i} \X Salas)
              /\ \A o \in Movimento(10, n, s, sa.T) :
                    \A j \in Salas : MesmoConteudo(o.n, n, Periodos \X {j})

\* the first pass of SA on an initial solution whose only violation has no
\* operator (a course on fewer days than minDias) has swapped cells of a room
C17_Witness ==
    /\ pc = "iteracao"
    /\ sa.i = 1
    /\ sa.T = Tinicial
    /\ matriz.fo = 5
    /\ SemAlvo(calcula_FO(matriz.n))
    /\ viz.n # matriz.n
    /\ viz.n \in {o.n : o \in Movimento(10, matriz.n, calcula_FO(matriz.n), sa.T)}

(***************************************************************************)
(* What the targeted operators leave in the counters and the witnesses.    *)
(***************************************************************************)
\* the counter read by the branch of class k
Contador(k) ==
    CASE k \in {1, 2} -> 2
      [] k = 3 -> 6
      [] k = 4 -> 7
      [] k = 5 -> 8
      [] k = 6 -> 9
      [] k = 7 -> 10
      [] OTHER -> 11

\* the witnesses the operator of class k chooses from
Testemunhas(s, k) ==
    CASE k = 1 -> {c \in Disciplinas : s.aux_mov_r21[c] # -1}
      [] k = 2 -> {c \in Disciplinas : s.aux_mov_r22[c] # -1}
      [] k = 3 -> {x \in Celulas : s.aux_mov_r6[x[1]][x[2]] # -1}
      [] k = 4 -> {c \in Disciplinas : s.aux_mov_r7[c][0] # -1}
      [] k = 5 -> {a \in DOMAIN s.aux_mov_r8 : s.aux_mov_r8[a] # -1}
      [] k = 6 -> {p \in Professores : s.aux_mov_r9[p] # -1}
      [] k = 7 -> {c \in Disciplinas : s.aux_mov_r10[c][0] # -1}
      [] OTHER -> {x \in Celulas : s.aux_mov_r11[x[1]][x[2]] # -1}

\* the branch of class k runs its targeted operator (classes 1 and 2 fall back
\* to random swaps below their thresholds)
Alvejado(k, s) ==
    CASE k = 1 -> s.restricoes_violadas[2] % 1000 > 1
      [] k = 2 -> s.restricoes_violadas[2] > 1000
      [] OTHER -> TRUE

\* C18: after a targeted operator has made its move, the witness it chose is
\* cleared and the counter of its constraint is below its value at the call.
C18_TestemunhaLimpaContadorMenor ==
    VaiChamarGeraViz =>
        LET s == IndicesNaChamada
            Classes == {Despacho(m, s) : m \in 0..1000}
        IN  \A k \in Classes \cap 1..8 :
                Alvejado(k, s) =>
                    \A o \in Movimento(k, atual.n, s, sa.T) :
                        ~ o.ub =>
                            /\ o.s.restricoes_violadas[Contador(k)]
                                  < s.restricoes_violadas[Contador(k)]
                            /\ Testemunhas(o.s, k) # Testemunhas(s, k)
                            /\ Testemunhas(o.s, k) \subseteq Testemunhas(s, k)

(***************************************************************************)
(* The forced placement of solucaoInicial.                                 *)
(***************************************************************************)
\* the draw x fails the first attempt for course j on grid n
Falha(n, j, x) == ~ Tentativa1(n, j, x[1], x[2])

\* the cell x is not compatible with course j
Incompativel(j, x) ==
    \/ sala[x[2]].capacidade < disc[j].alunos
    \/ sala[x[2]].tipo_sala < disc[j].tipo_sala
    \/ restricaoR4(j, x[1]) = 1

\* a step of solucaoInicial that places a lecture
Coloca == pc = "solucaoInicial" /\ matriz'.n # matriz.n

\* C19: a lecture goes into an incompatible cell only by the forced placement,
\* and whenever three successive draws for one lecture have failed the first
\* attempt, the third one on an empty cell, that cell receives the lecture,
\* however many lectures were placed before.
C19_ForcaNaTerceiraFalha ==
    [][/\ Coloca =>
             \A x \in Celulas :
                 (matriz.n[x[1]][x[2]] # matriz'.n[x[1]][x[2]]
                  /\ Incompativel(constr.j, x)) =>
                     (constr.cont >= 2 /\ constr'.cont = constr.cont - 2)
       /\ (Coloca /\ constr'.atribuicoes > 0) =>
             \A x1, x2, x3 \in Celulas :
                 LET j == constr'.j
                     n == matriz'.n
                     p1 == Passagem(n, j, constr'.atribuicoes, constr'.cont,
                                    x1[1], x1[2])
                     p2 == Passagem(p1.n, j, p1.atribuicoes, p1.cont, x2[1], x2[2])
                     p3 == Passagem(p2.n, j, p2.atribuicoes, p2.cont, x3[1], x3[2])
                 IN  (/\ Falha(n, j, x1) /\ Falha(n, j, x2) /\ Falha(n, j, x3)
                      /\ p2.n = n
                      /\ n[x3[1]][x3[2]] = -1) =>
                         p3.n[x3[1]][x3[2]] = j]_vars

(***************************************************************************)
(* The return of solucaoInicial.                                           *)
(***************************************************************************)
\* C20: under fair draws solucaoInicial comes to its return on every instance,
\* also when the lectures outnumber the cells: the for loop over the courses
\* ends (the evaluation follows at once).
C20_InicialRetorna == <>(constr.j >= disciplinas)

(***************************************************************************)
(* The operator for teacher conflicts (MOVIMENTO 1).                       *)
(***************************************************************************)
\* the last evaluation counted k teacher conflicts or more
ConflitosDeProfessor(s, k) ==
    /\ s.restricoes_violadas[2] # -1
    /\ s.restricoes_violadas[2] % 1000 >= k

\* the grid g is n with the lecture of a witness of aux_mov_r21 moved out of its
\* cell: into an empty cell, or swapped with the lecture of another cell
MoveTestemunhaR21(n, s, g) ==
    \E c \in Disciplinas :
        /\ s.aux_mov_r21[c] # -1
        /\ LET w == Decodifica(s.aux_mov_r21[c])
           IN  /\ n[w[1]][w[2]] = c
               /\ \E x \in Celulas \ {w} : g = Troca(n, w, x)

\* C21: at every call of geraViz whose indices count at least one teacher
\* conflict, every result of the class of teacher conflicts is the grid with a
\* witnessed lecture of aux_mov_r21 moved out of its cell.  The statement of the
\* claim; the code violates it.
C21_ProfessorMoveTestemunha ==
    (VaiChamarGeraViz /\ ConflitosDeProfessor(IndicesNaChamada, 1)
        /\ Despacho(0, IndicesNaChamada) = 1)
    => \A o \in Movimento(1, atual.n, IndicesNaChamada, sa.T) :
          ~ o.ub /\ MoveTestemunhaR21(atual.n, IndicesNaChamada, o.n)

(***************************************************************************)
(* The witnesses of R2 after an evaluation.                                *)
(***************************************************************************)
\* the lectures in period p of teacher t, and of curriculum k
AulasDoProf(p, t) == {x \in Aulas : x[1] = p /\ disc[G[x[1]][x[2]]].prof = t}
AulasDoCurso(p, k) == {x \in Aulas : x[1] = p /\ disc[G[x[1]][x[2]]].cursos[k] = 1}

TestemunhaR21Certa(c) ==
    LET w == Decodifica(idx.aux_mov_r21[c])
    IN  /\ w \in Celulas
        /\ G[w[1]][w[2]] = c
        /\ Cardinality(AulasDoProf(w[1], disc[c].prof)) > 1

TestemunhaR22Certa(c) ==
    LET w == Decodifica(idx.aux_mov_r22[c])
    IN  /\ w \in Celulas
        /\ G[w[1]][w[2]] = c
        /\ \E k \in Cursos : /\ disc[c].cursos[k] = 1
                             /\ Cardinality(AulasDoCurso(w[1], k)) > 1

\* C22: after an evaluation every witness of aux_mov_r21 is a cell holding the
\* course, in a period where its teacher has more than one lecture, and every
\* witness of aux_mov_r22 is a cell holding the course, in a period where a
\* curriculum of the course has more than one lecture.  The statement of the
\* claim; the evaluation violates its second half.
C22_TestemunhasR2NoConflito ==
    Avaliado =>
        \A c \in Disciplinas :
            /\ idx.aux_mov_r21[c] # -1 => TestemunhaR21Certa(c)
            /\ idx.aux_mov_r22[c] # -1 => TestemunhaR22Certa(c)

(***************************************************************************)
(* delta in the for loop of SA.                                            *)
(***************************************************************************)
\* one pass of the for loop has run: viz' is the neighbour, atual the solution
\* it was compared with
PassoDoFor == pc = "iteracao" /\ pc' = "iteracao" /\ sa'.i = sa.i + 1

\* (d * 4) fits the 32 bits of delta
CabeEmInt(d) == d >= -536870912 /\ d <= 536870911

\* C23: in every pass of the for loop delta = (viz.fo - atual.fo) << 2 is
\* computed without wrapping, and delta < 0 exactly when viz.fo < atual.fo.
\* The statement of the claim; the code violates it.
C23_DeltaSemEstouro ==
    [][PassoDoFor =>
          /\ CabeEmInt(viz'.fo - atual.fo)
          /\ (Desloca2(viz'.fo - atual.fo) < 0) <=> (viz'.fo < atual.fo)]_vars

(***************************************************************************)
(* The blocks of the first timetable when the second has been read.        *)
(***************************************************************************)
SegundaLida == pc \in {"noturno", "liberado"}

\* the blocks of the problem data and indices of the first timetable
DaPrimeira == {b \in heap.alocados : b[1] = 1 /\ b[2] \in Dados \cup Indices}

\* C24: once leArquivos has allocated for the second timetable, every block of
\* the problem data and indices of the first timetable has been freed, and
\* none of them twice.  The statement of the claim; the code violates it.
C24_PrimeiraFaseLiberada ==
    SegundaLida =>
        \A b \in DaPrimeira : b \in heap.liberados /\ b \notin heap.duplos

(***************************************************************************)
(* The temperature from one outer iteration to the next.                   *)
(***************************************************************************)
\* an outer iteration ends: the for loop is left and T is updated
FimDeIteracao == pc = "iteracao" /\ pc' = "SA"

\* the first head of the schedule with T < Temp_reaquecimento
PrimeiraFria ==
    CHOOSE k \in 1..Len(Trilha) :
        /\ Menor(Trilha[k].T, Temp_reaquecimento)
        /\ \A q \in 1..(k - 1) : ~ Menor(Trilha[q].T, Temp_reaquecimento)

\* T after the outer iteration at T = t: a product by alpha < 1, below t
Esfriou(t, depois) ==
    /\ alpha(t) < 1000
    /\ depois = Vezes(t, alpha(t))
    /\ Menor(depois, t)

\* the whole schedule: T rises once, to 0.1 * Tinicial, after PrimeiraFria
EsquemaDeT ==
    \A k \in 1..(Len(Trilha) - 1) :
        IF k = PrimeiraFria THEN Trilha[k + 1].T = Pot10(5)
        ELSE Esfriou(Trilha[k].T, Trilha[k + 1].T)

\* C25: at the end of the first outer iteration run with T < Temp_reaquecimento
\* T becomes 0.1 * Tinicial; at the end of every other outer iteration T is
\* multiplied by the alpha of the iteration and decreases; so T rises at most
\* once in a run.
C25_UmReaquecimento ==
    [][FimDeIteracao =>
          /\ IF Posicao(sa) = PrimeiraFria THEN sa'.T = Pot10(5)
             ELSE Esfriou(sa.T, sa'.T)
          /\ EsquemaDeT]_vars

\* the search goes on after the reheating, down to the last decade again
C25_Witness ==
    /\ pc = "iteracao"
    /\ sa.reaquecimento = 0
    /\ Menor(sa.T, Temp_reaquecimento)
    /\ Posicao(sa) > PrimeiraFria

(***************************************************************************)
(* The contents of the grids of the search.                                *)
(***************************************************************************)
\* C26: every grid geraViz returns in SA, and every grid SA keeps as atual,
\* holds each course in as many cells as the initial solution (matriz).  The
\* statement of the claim; the code violates it.
C26_ConteudoPreservado ==
    [][pc = "iteracao" =>
          /\ MesmoConteudo(viz'.n, matriz.n, Celulas)
          /\ MesmoConteudo(atual'.n, matriz.n, Celulas)]_vars

(***************************************************************************)
(* melhor as the minimum of the objective values seen.                     *)
(***************************************************************************)
Min(a, b) == IF a < b THEN a ELSE b

\* C27: SA starts with melhor.fo = atual.fo = the fo of the initial solution;
\* after every pass of the for loop whose delta fits the int, melhor.fo is the
\* minimum of its value before the pass and the fo of the neighbour evaluated in
\* the pass, and melhor.fo <= atual.fo.  So melhor.fo is the minimum of the fo
\* of the initial solution and of every neighbour evaluated so far.
C27_MelhorEhMinimo ==
    [][/\ (pc = "solucaoInicial" /\ pc' = "SA") =>
             melhor'.fo = matriz'.fo /\ atual'.fo = matriz'.fo
       /\ (PassoDoFor /\ CabeEmInt(viz'.fo - atual.fo)) =>
             /\ melhor'.fo = Min(melhor.fo, viz'.fo)
             /\ melhor'.fo <= atual'.fo]_vars

\* a neighbour below melhor has been taken, and atual has gone above melhor since
C27_Witness ==
    /\ pc = "iteracao"
    /\ sa.i > 0
    /\ melhor.fo < matriz.fo
    /\ melhor.fo < atual.fo
    /\ viz.fo > melhor.fo

(***************************************************************************)
(* The return of geraViz.                                                  *)
(***************************************************************************)
\* the classes the draw of movimento can select with the indices s
Sorteaveis(s) == {Despacho(movimento, s) : movimento \in 0..1000}

\* C28: at every call of geraViz in SA, whatever class the draw selects, some
\* sequence of draws makes the operator return (its loops end with probability
\* 1).  The statement of the claim; the code violates it.
C28_GeraVizRetorna ==
    VaiChamarGeraViz =>
        \A classe \in Sorteaveis(IndicesNaChamada) :
            Movimento(classe, atual.n, IndicesNaChamada, sa.T) # {}

(***************************************************************************)
(* The array accesses of geraViz.                                          *)
(***************************************************************************)
\* C29: at every call of geraViz in SA, no sequence of draws makes it read or
\* write outside the grid, r8, r21, disc or a witness array.  The statement of
\* the claim; the code violates it.
C29_IndicesDentro ==
    VaiChamarGeraViz =>
        \A o \in geraViz(atual.n, IndicesNaChamada, sa.T) : ~ o.ub

(***************************************************************************)
(* The R9 penalty of the inherited teacher days.                           *)
(***************************************************************************)
\* the days set for teacher t in the bitmap of the first timetable
DiasSemeados(t) ==
    {d \in DOMAIN dias_ocupados_integral[t] : dias_ocupados_integral[t][d] = 1}

\* the teacher ids of both timetables
ProfsComuns == {t \in Professores : t < num_profs_da_integral}

\* C30: in the second timetable every evaluation returns at least 5 for each
\* day beyond 2 set in the bitmap of the first timetable for a teacher id of
\* both timetables; so fo is not 0 when such a teacher has more than 2 days
\* set.  The statement of the claim; the code violates it.
C30_PisoDosDiasHerdados ==
    (Avaliado /\ usar_restricao_integral = 1) =>
        /\ matriz.fo >= Total([t \in ProfsComuns |->
                                  Pos(5 * (Cardinality(DiasSemeados(t)) - 2))],
                              ProfsComuns)
        /\ (\E t \in ProfsComuns : Cardinality(DiasSemeados(t)) > 2) => matriz.fo # 0

====
